---- MODULE Spec2Model ----
(***************************************************************************)
(* A model of dante-control-rs (src/src/lib.rs): the device registry       *)
(* (DanteDeviceList), the name normaliser (cutoff_address) and the event   *)
(* handlers of the four discovery workers spawned by start_discovery, and  *)
(* the subscription command codec (make_subscription, clear_subscription). *)
(*                                                                         *)
(* Conventions.                                                            *)
(*   Option<T>      a set with at most one element: None == {}, Some(v)    *)
(*                  == {v}.                                                *)
(*   HashMap<K,V>   a function whose DOMAIN is the set of keys.            *)
(*   HashSet<T>     a set; for CHANInfo, whose Eq/Hash look at id only,    *)
(*                  insertion is written out in HashSetReplace.            *)
(*   a panic        registry operations return [dl, panic]: the registry   *)
(*                  as the operation leaves it and whether an expect()     *)
(*                  failed.  A panic while the registry mutex is held      *)
(*                  poisons the mutex.                                     *)
(***************************************************************************)
EXTENDS Integers, Sequences, FiniteSets, TLC

VARIABLES
    device_list,   \* DanteDeviceManager.device_list: [devices, caches]
    poisoned,      \* the registry mutex is poisoned (a holder panicked)
    last,          \* history: the event handled by the latest step
    handled,       \* history: the number of events handled so far
    found,         \* history: per device, the categories whose ServiceFound
                   \* was handled, while no other event for it was
    current_command_sequence_id,   \* DanteDeviceManager's u16 counter
    call,          \* history: the latest make_/clear_subscription call
    wire,          \* the datagram the latest call put on the network, if any
    normalised,    \* history: the latest name given to the name normaliser
                   \* on its own, with what it returned
    parsed,        \* history: the latest version string given to
                   \* DanteVersion::from_string, with what came back
    live,          \* history: the <<category, instance>> pairs whose
                   \* ServiceFound was handled and not yet followed by their
                   \* ServiceRemoved
    disciplined,   \* history: every ServiceRemoved handled so far was for
                   \* an instance that was live
    ever_found,    \* history: the <<category, device>> pairs for which a
                   \* ServiceFound was handled
    running,       \* DanteDeviceManager.running: the shared run flag
    workers,       \* the discovery threads spawned so far, oldest first
    query          \* history: the latest query the caller made

registry_vars == <<device_list, poisoned, last, handled, found, live, disciplined, ever_found>>

pure_vars == <<normalised, parsed>>

life_vars == <<running, workers, query>>

cmd_vars == <<current_command_sequence_id, call, wire>>

\* handled comes first: every step of a handler changes it.
vars == <<handled, device_list, poisoned, last, found,
          current_command_sequence_id, call, wire, normalised, parsed,
          live, disciplined, ever_found, running, workers, query>>

----------------------------------------------------------------------------
(* Option *)

None == {}

Some(v) == {v}

Unwrap(o) == CHOOSE v \in o : TRUE

----------------------------------------------------------------------------
(* Service types, lib.rs 15-18 *)

CMC_SERVICE == "_netaudio-cmc._udp.local."

DBC_SERVICE == "_netaudio-dbc._udp.local."

ARC_SERVICE == "_netaudio-arc._udp.local."

CHAN_SERVICE == "_netaudio-chan._udp.local."

----------------------------------------------------------------------------
(* Strings: str::strip_suffix, str::split_once and the name normaliser *)

strip_suffix(s, suffix) ==
    IF /\ Len(s) >= Len(suffix)
       /\ SubSeq(s, Len(s) - Len(suffix) + 1, Len(s)) = suffix
    THEN Some(SubSeq(s, 1, Len(s) - Len(suffix)))
    ELSE None

split_once(s, delim) ==
    LET hits == {i \in 1..Len(s) : SubSeq(s, i, i) = delim}
    IN  IF hits = {}
        THEN None
        ELSE LET i == CHOOSE j \in hits : \A k \in hits : j <= k
             IN  Some(<<SubSeq(s, 1, i - 1), SubSeq(s, i + 1, Len(s))>>)

\* A faulty variant: the "." before the service type is not part of what is
\* cut off.
cutoff_address_keeps_dot(hostname, address) ==
    LET cutoff_string == IF address = None THEN "local." ELSE Unwrap(address)
        stripped == strip_suffix(hostname, cutoff_string)
    IN  IF stripped = None THEN hostname ELSE Unwrap(stripped)

cutoff_address(hostname, address) ==
    LET cutoff_string == "." \o (IF address = None THEN "local." ELSE Unwrap(address))
        stripped == strip_suffix(hostname, cutoff_string)
    IN  IF stripped = None THEN hostname ELSE Unwrap(stripped)

----------------------------------------------------------------------------
(* HashMap helpers *)

MapInsert(m, k, v) == [x \in DOMAIN m \cup {k} |-> IF x = k THEN v ELSE m[x]]

MapRemove(m, k) == [x \in DOMAIN m \ {k} |-> m[x]]

EmptyMap == [x \in {} |-> {}]

----------------------------------------------------------------------------
(* DeviceStatus, DeviceDiscoveryCache, DanteDeviceList *)

DeviceStatus_new ==
    [connected_dbc |-> FALSE, connected_cmc |-> FALSE,
     connected_arc |-> FALSE, connected_chan |-> FALSE]

DeviceDiscoveryCache_new ==
    [dbc_info |-> None, cmc_info |-> None, arc_info |-> None, chan_info |-> {}]

DanteDeviceList_new == [devices |-> EmptyMap, caches |-> EmptyMap]

\* A faulty variant: HashSet::insert, which keeps the stored value equal to the new one.
HashSetInsert(set, info) ==
    IF \E c \in set : c.id = info.id THEN set ELSE set \cup {info}

\* A faulty variant: equality of CHANInfo on all of its fields (a derived Eq and Hash).
HashSetReplaceDerivedEq(set, info) == set \cup {info}

\* HashSet<CHANInfo>::replace: CHANInfo's Eq and Hash compare the id alone,
\* so the stored value equal-by-id to info (if any) is dropped and info stored.
HashSetReplace(set, info) == {c \in set : c.id /= info.id} \cup {info}

\* A faulty variant: the early return is lost, a present record is overwritten.
add_device_overwrites(dl, new_device_name) ==
    LET devs == MapInsert(dl.devices, new_device_name, DeviceStatus_new)
        cch  == IF new_device_name \notin DOMAIN dl.caches
                THEN MapInsert(dl.caches, new_device_name, DeviceDiscoveryCache_new)
                ELSE dl.caches
    IN  [dl |-> [devices |-> devs, caches |-> cch], result |-> "Ok"]

\* A faulty variant: the presence test looks at the cache map.
add_device_tests_caches(dl, new_device_name) ==
    IF new_device_name \in DOMAIN dl.caches
    THEN [dl |-> dl, result |-> "DeviceAlreadyPresent"]
    ELSE [dl |-> [devices |-> MapInsert(dl.devices, new_device_name, DeviceStatus_new),
                  caches |-> MapInsert(dl.caches, new_device_name,
                                       DeviceDiscoveryCache_new)],
          result |-> "Ok"]

\* A faulty variant: the cache is not created with the record.
add_device_without_cache(dl, new_device_name) ==
    IF new_device_name \in DOMAIN dl.devices
    THEN [dl |-> dl, result |-> "DeviceAlreadyPresent"]
    ELSE [dl |-> [dl EXCEPT !.devices =
                      MapInsert(@, new_device_name, DeviceStatus_new)],
          result |-> "Ok"]

\* A faulty variant: a fresh cache is installed with every new record.
add_device_resets_cache(dl, new_device_name) ==
    IF new_device_name \in DOMAIN dl.devices
    THEN [dl |-> dl, result |-> "DeviceAlreadyPresent"]
    ELSE [dl |-> [devices |-> MapInsert(dl.devices, new_device_name, DeviceStatus_new),
                  caches |-> MapInsert(dl.caches, new_device_name, DeviceDiscoveryCache_new)],
          result |-> "Ok"]

add_device(dl, new_device_name) ==
    IF new_device_name \in DOMAIN dl.devices
    THEN [dl |-> dl, result |-> "DeviceAlreadyPresent"]
    ELSE LET devs == MapInsert(dl.devices, new_device_name, DeviceStatus_new)
             cch  == IF new_device_name \notin DOMAIN dl.caches
                     THEN MapInsert(dl.caches, new_device_name, DeviceDiscoveryCache_new)
                     ELSE dl.caches
         IN  [dl |-> [devices |-> devs, caches |-> cch], result |-> "Ok"]

try_add_device(dl, new_device_name) == add_device(dl, new_device_name).dl

device_connected(dl, device_name) == device_name \in DOMAIN dl.devices

\* A faulty variant: the presence test is lost, the cache alone decides.
channel_id_exist_from_cache(dl, device_name, chan_id) ==
    IF device_name \in DOMAIN dl.caches
    THEN \E chan_info \in dl.caches[device_name].chan_info :
             chan_info.id /= None /\ Unwrap(chan_info.id) = chan_id
    ELSE FALSE

channel_id_exist(dl, device_name, chan_id) ==
    IF ~device_connected(dl, device_name)
    THEN FALSE
    ELSE IF device_name \in DOMAIN dl.caches
         THEN \E chan_info \in dl.caches[device_name].chan_info :
                  chan_info.id /= None /\ Unwrap(chan_info.id) = chan_id
         ELSE FALSE

\* The result is an Option<&str>; Iterator::find returns the first match in
\* the set's iteration order, which is unspecified: with several matches the
\* model returns all the names find could return.
get_channel_name_from_id(dl, device_name, chan_id) ==
    IF ~device_connected(dl, device_name)
    THEN None
    ELSE IF device_name \in DOMAIN dl.caches
         THEN {chan.name : chan \in
                  {chan_info \in dl.caches[device_name].chan_info :
                      chan_info.id /= None /\ Unwrap(chan_info.id) = chan_id}}
         ELSE None

\* A faulty variant: the CMC slot is left out of the union.
get_device_ips_without_cmc(dl, device_name) ==
    IF ~device_connected(dl, device_name)
    THEN None
    ELSE IF device_name \notin DOMAIN dl.caches
         THEN None
         ELSE LET caches == dl.caches[device_name]
                  from_arc == IF caches.arc_info /= None
                              THEN Unwrap(caches.arc_info).addresses ELSE {}
                  from_dbc == IF caches.dbc_info /= None
                              THEN Unwrap(caches.dbc_info).addresses ELSE {}
              IN  Some(from_arc \cup from_dbc)

\* Option<HashSet<Ipv4Addr>>
get_device_ips(dl, device_name) ==
    IF ~device_connected(dl, device_name)
    THEN None
    ELSE IF device_name \notin DOMAIN dl.caches
         THEN None
         ELSE LET caches == dl.caches[device_name]
                  from_arc == IF caches.arc_info /= None
                              THEN Unwrap(caches.arc_info).addresses ELSE {}
                  from_dbc == IF caches.dbc_info /= None
                              THEN Unwrap(caches.dbc_info).addresses ELSE {}
                  from_cmc == IF caches.cmc_info /= None
                              THEN Unwrap(caches.cmc_info).addresses ELSE {}
              IN  Some(from_arc \cup from_dbc \cup from_cmc)

update_dbc(dl, device_name, info) ==
    IF device_name \notin DOMAIN dl.caches
    THEN [dl |-> dl, panic |-> TRUE]
    ELSE [dl |-> [dl EXCEPT !.caches[device_name].dbc_info = Some(info)],
          panic |-> FALSE]

update_cmc(dl, device_name, info) ==
    IF device_name \notin DOMAIN dl.caches
    THEN [dl |-> dl, panic |-> TRUE]
    ELSE [dl |-> [dl EXCEPT !.caches[device_name].cmc_info = Some(info)],
          panic |-> FALSE]

\* A faulty variant: the whole cache is replaced by one that holds the info.
update_arc_resets_cache(dl, device_name, info) ==
    IF device_name \notin DOMAIN dl.caches
    THEN [dl |-> dl, panic |-> TRUE]
    ELSE [dl |-> [dl EXCEPT !.caches[device_name] =
                      [DeviceDiscoveryCache_new EXCEPT !.arc_info = Some(info)]],
          panic |-> FALSE]

update_arc(dl, device_name, info) ==
    IF device_name \notin DOMAIN dl.caches
    THEN [dl |-> dl, panic |-> TRUE]
    ELSE [dl |-> [dl EXCEPT !.caches[device_name].arc_info = Some(info)],
          panic |-> FALSE]

update_chan(dl, device_name, info) ==
    IF device_name \notin DOMAIN dl.caches
    THEN [dl |-> dl, panic |-> TRUE]
    ELSE [dl |-> [dl EXCEPT !.caches[device_name].chan_info =
                      HashSetReplace(@, info)],
          panic |-> FALSE]

connect_dbc(dl, device_name) ==
    LET added == try_add_device(dl, device_name)
    IN  IF device_name \notin DOMAIN added.devices
        THEN [dl |-> added, panic |-> TRUE]
        ELSE [dl |-> [added EXCEPT !.devices[device_name].connected_dbc = TRUE],
              panic |-> FALSE]

\* A faulty variant: the record is made anew, which drops the other bits.
connect_cmc_new_record(dl, device_name) ==
    LET added == try_add_device(dl, device_name)
    IN  [dl |-> [added EXCEPT !.devices =
                    MapInsert(added.devices, device_name,
                              [DeviceStatus_new EXCEPT !.connected_cmc = TRUE])],
         panic |-> FALSE]

connect_cmc(dl, device_name) ==
    LET added == try_add_device(dl, device_name)
    IN  IF device_name \notin DOMAIN added.devices
        THEN [dl |-> added, panic |-> TRUE]
        ELSE [dl |-> [added EXCEPT !.devices[device_name].connected_cmc = TRUE],
              panic |-> FALSE]

connect_arc(dl, device_name) ==
    LET added == try_add_device(dl, device_name)
    IN  IF device_name \notin DOMAIN added.devices
        THEN [dl |-> added, panic |-> TRUE]
        ELSE [dl |-> [added EXCEPT !.devices[device_name].connected_arc = TRUE],
              panic |-> FALSE]

connect_chan(dl, device_name) ==
    LET added == try_add_device(dl, device_name)
    IN  IF device_name \notin DOMAIN added.devices
        THEN [dl |-> added, panic |-> TRUE]
        ELSE [dl |-> [added EXCEPT !.devices[device_name].connected_chan = TRUE],
              panic |-> FALSE]

\* A faulty variant: the removal test is inverted (the ! is lost).
check_remove_inverted(dl, device_name) ==
    IF device_name \in DOMAIN dl.devices
    THEN LET device_status == dl.devices[device_name]
         IN  IF (\/ device_status.connected_dbc
                 \/ device_status.connected_cmc
                 \/ device_status.connected_arc
                 \/ device_status.connected_chan)
             THEN [dl |-> [dl EXCEPT !.devices = MapRemove(@, device_name)],
                   result |-> "Ok"]
             ELSE [dl |-> dl, result |-> "Ok"]
    ELSE [dl |-> dl, result |-> "DeviceNotPresent"]

\* A faulty variant: the cache is dropped together with the record.
check_remove_prunes_cache(dl, device_name) ==
    IF device_name \in DOMAIN dl.devices
    THEN LET device_status == dl.devices[device_name]
         IN  IF ~(\/ device_status.connected_dbc
                  \/ device_status.connected_cmc
                  \/ device_status.connected_arc
                  \/ device_status.connected_chan)
             THEN [dl |-> [devices |-> MapRemove(dl.devices, device_name),
                           caches |-> MapRemove(dl.caches, device_name)],
                   result |-> "Ok"]
             ELSE [dl |-> dl, result |-> "Ok"]
    ELSE [dl |-> dl, result |-> "DeviceNotPresent"]

check_remove(dl, device_name) ==
    IF device_name \in DOMAIN dl.devices
    THEN LET device_status == dl.devices[device_name]
         IN  IF ~(\/ device_status.connected_dbc
                  \/ device_status.connected_cmc
                  \/ device_status.connected_arc
                  \/ device_status.connected_chan)
             THEN [dl |-> [dl EXCEPT !.devices = MapRemove(@, device_name)],
                   result |-> "Ok"]
             ELSE [dl |-> dl, result |-> "Ok"]
    ELSE [dl |-> dl, result |-> "DeviceNotPresent"]

\* A faulty variant: the wrong bit is cleared (a copy of disconnect_cmc left unedited).
disconnect_dbc_clears_cmc(dl, device_name) ==
    IF device_name \notin DOMAIN dl.devices
    THEN [dl |-> dl, panic |-> TRUE]
    ELSE LET cleared == [dl EXCEPT !.devices[device_name].connected_cmc = FALSE]
             removed == check_remove(cleared, device_name)
         IN  [dl |-> removed.dl, panic |-> removed.result /= "Ok"]

disconnect_dbc(dl, device_name) ==
    IF device_name \notin DOMAIN dl.devices
    THEN [dl |-> dl, panic |-> TRUE]
    ELSE LET cleared == [dl EXCEPT !.devices[device_name].connected_dbc = FALSE]
             removed == check_remove(cleared, device_name)
         IN  [dl |-> removed.dl, panic |-> removed.result /= "Ok"]

disconnect_cmc(dl, device_name) ==
    IF device_name \notin DOMAIN dl.devices
    THEN [dl |-> dl, panic |-> TRUE]
    ELSE LET cleared == [dl EXCEPT !.devices[device_name].connected_cmc = FALSE]
             removed == check_remove(cleared, device_name)
         IN  [dl |-> removed.dl, panic |-> removed.result /= "Ok"]

disconnect_arc(dl, device_name) ==
    IF device_name \notin DOMAIN dl.devices
    THEN [dl |-> dl, panic |-> TRUE]
    ELSE LET cleared == [dl EXCEPT !.devices[device_name].connected_arc = FALSE]
             removed == check_remove(cleared, device_name)
         IN  [dl |-> removed.dl, panic |-> removed.result /= "Ok"]

\* A faulty variant: the removal check is not called.
disconnect_chan_without_check(dl, device_name) ==
    IF device_name \notin DOMAIN dl.devices
    THEN [dl |-> dl, panic |-> TRUE]
    ELSE [dl |-> [dl EXCEPT !.devices[device_name].connected_chan = FALSE],
          panic |-> FALSE]

\* A faulty variant: the bit is left as it is, as if channels were counted.
disconnect_chan_keeps_bit(dl, device_name) ==
    IF device_name \notin DOMAIN dl.devices
    THEN [dl |-> dl, panic |-> TRUE]
    ELSE LET removed == check_remove(dl, device_name)
         IN  [dl |-> removed.dl, panic |-> removed.result /= "Ok"]

disconnect_chan(dl, device_name) ==
    IF device_name \notin DOMAIN dl.devices
    THEN [dl |-> dl, panic |-> TRUE]
    ELSE LET cleared == [dl EXCEPT !.devices[device_name].connected_chan = FALSE]
             removed == check_remove(cleared, device_name)
         IN  [dl |-> removed.dl, panic |-> removed.result /= "Ok"]


\* get_device_descriptions looks up the cache of every record with expect().
\* get_device_names, lib.rs 937-945: the keys of the presence map collected
\* into a Vec, in the order the HashMap iterates them, which is any order.
\* The operator gives every Vec the call may return.
get_device_names(dl) ==
    LET keys == DOMAIN dl.devices
    IN  {names \in [1..Cardinality(keys) -> keys] :
             \A i, j \in 1..Cardinality(keys) : names[i] = names[j] => i = j}

get_device_descriptions_panics(dl) ==
    \E device \in DOMAIN dl.devices : device \notin DOMAIN dl.caches

\* x < y in the derived order of Option<u16>: None is less than every Some.
OptionLess(x, y) ==
    IF x = None THEN y /= None
    ELSE y /= None /\ Unwrap(x) < Unwrap(y)

\* A faulty variant: None is greater than every Some.
chan_info_sorted_none_last(chan_info) ==
    LET n == Cardinality(chan_info)
    IN  CHOOSE sorted \in [1..n -> chan_info] :
            /\ \A i, j \in 1..n : sorted[i] = sorted[j] => i = j
            /\ \A i, j \in 1..n :
                   i < j => \/ sorted[j].id = None
                            \/ /\ sorted[i].id /= None
                               /\ Unwrap(sorted[i].id) <= Unwrap(sorted[j].id)

\* chan_info_sorted after sort_by(|x, y| x.id.partial_cmp(&y.id)): the
\* records of the set in ascending order of id.  The records of one set have
\* different ids, so the order the set is iterated in does not show.
chan_info_sorted(chan_info) ==
    LET n == Cardinality(chan_info)
    IN  CHOOSE sorted \in [1..n -> chan_info] :
            /\ \A i, j \in 1..n : sorted[i] = sorted[j] => i = j
            /\ \A i, j \in 1..n : i < j => ~OptionLess(sorted[j].id, sorted[i].id)

Connected(bit) == IF bit THEN "Connected" ELSE "Disconnected"

\* The report of one device, by the fields its text is formatted from; the
\* ARC port and addresses are kept as values (None for "N/A"), and the
\* channels are the names in the order they are appended.
describe(device, status, cache) ==
    [device |-> device,
     dbc_status |-> Connected(status.connected_dbc),
     cmc_status |-> Connected(status.connected_cmc),
     arc_status |-> Connected(status.connected_arc),
     chan_status |-> Connected(status.connected_chan),
     id |-> IF cache.cmc_info = None THEN "N/A" ELSE Unwrap(cache.cmc_info).id,
     manufacturer |-> IF cache.cmc_info = None THEN "N/A"
                      ELSE Unwrap(cache.cmc_info).manufacturer,
     model |-> IF cache.cmc_info = None THEN "N/A" ELSE Unwrap(cache.cmc_info).model,
     router_vers |-> IF cache.arc_info = None THEN "N/A"
                     ELSE Unwrap(cache.arc_info).router_vers,
     router_info |-> IF cache.arc_info = None THEN "N/A"
                     ELSE Unwrap(cache.arc_info).router_info,
     arc_port |-> IF cache.arc_info = None THEN None
                  ELSE Some(Unwrap(cache.arc_info).port),
     ip |-> IF cache.arc_info = None THEN None
            ELSE Some(Unwrap(cache.arc_info).addresses),
     channels |-> LET sorted == chan_info_sorted(cache.chan_info)
                  IN  [i \in 1..Cardinality(cache.chan_info) |-> sorted[i].name]]

\* The reports of the devices of the presence map, as a set: the order of
\* the vector is the iteration order of the map.
get_device_descriptions(dl) ==
    {describe(device, dl.devices[device], dl.caches[device]) :
         device \in DOMAIN dl.devices}

----------------------------------------------------------------------------
(* str::parse::<uN>(): an optional leading "+", then one or more ASCII      *)
(* digits, and a value that fits the type; anything else is an error.      *)
(* The type's maximum is given in decimal (u32 and u64 maxima do not fit   *)
(* a TLC integer); the parsed value itself must fit one.                   *)

DigitOf(c) ==
    CASE c = "0" -> 0 [] c = "1" -> 1 [] c = "2" -> 2 [] c = "3" -> 3
      [] c = "4" -> 4 [] c = "5" -> 5 [] c = "6" -> 6 [] c = "7" -> 7
      [] c = "8" -> 8 [] c = "9" -> 9 [] OTHER -> -1

\* digits (all ASCII digits) denotes a number greater than max (decimal).
ExceedsMax(digits, max) ==
    LET n == Len(digits)
        nonzero == {i \in 1..n : SubSeq(digits, i, i) /= "0"}
        first == IF nonzero = {} THEN n + 1
                 ELSE CHOOSE i \in nonzero : \A j \in nonzero : i <= j
        sig == SubSeq(digits, first, n)
    IN  \/ Len(sig) > Len(max)
        \/ /\ Len(sig) = Len(max)
           /\ \E i \in 1..Len(sig) :
                 /\ DigitOf(SubSeq(sig, i, i)) > DigitOf(SubSeq(max, i, i))
                 /\ \A j \in 1..(i - 1) : SubSeq(sig, j, j) = SubSeq(max, j, j)

parse_unsigned(s, max) ==
    LET digits == IF Len(s) > 1 /\ SubSeq(s, 1, 1) = "+"
                  THEN SubSeq(s, 2, Len(s)) ELSE s
        n == Len(digits)
        value[i \in 0..n] ==
            IF i = 0 THEN 0 ELSE value[i - 1] * 10 + DigitOf(SubSeq(digits, i, i))
    IN  IF \/ n = 0
           \/ \E i \in 1..n : DigitOf(SubSeq(digits, i, i)) < 0
           \/ ExceedsMax(digits, max)
        THEN None
        ELSE Some(value[n])

U16_MAX == "65535"

U32_MAX == "4294967295"

U64_MAX == "18446744073709551615"

----------------------------------------------------------------------------
(* mdns_sd::ServiceInfo as the handlers read it:                           *)
(*   [fullname, addresses, port, props], props a map from TXT key to value *)

get_property(service_info, key) ==
    IF key \in DOMAIN service_info.props
    THEN Some(service_info.props[key])
    ELSE None

val_str_or_na(property) == IF property = None THEN "N/A" ELSE Unwrap(property)

DBCInfo(service_info) ==
    [addresses |-> service_info.addresses, port |-> service_info.port]

CMCInfo(service_info) ==
    [addresses    |-> service_info.addresses,
     port         |-> service_info.port,
     id           |-> val_str_or_na(get_property(service_info, "id")),
     manufacturer |-> val_str_or_na(get_property(service_info, "mf")),
     model        |-> val_str_or_na(get_property(service_info, "model"))]

ARCInfo(service_info) ==
    [addresses   |-> service_info.addresses,
     port        |-> service_info.port,
     router_vers |-> val_str_or_na(get_property(service_info, "router_vers")),
     router_info |-> val_str_or_na(get_property(service_info, "router_info"))]

\* The id is parsed with expect(): a present id that does not parse panics.
CHANInfo_id_panics(service_info) ==
    LET id_property == get_property(service_info, "id")
    IN  id_property /= None /\ parse_unsigned(Unwrap(id_property), U16_MAX) = None

\* A faulty variant: the "32" arm gives the encoding of the "24" arm.
CHANInfo_pcm32_as_pcm24(chan_name, service_info) ==
    LET id_property      == get_property(service_info, "id")
        rate_property    == get_property(service_info, "rate")
        encoding_property == get_property(service_info, "en")
        latency_property == get_property(service_info, "latency_ns")
    IN  [name |-> chan_name,
         id   |-> IF id_property = None THEN None
                  ELSE parse_unsigned(Unwrap(id_property), U16_MAX),
         sample_rate |-> IF rate_property = None THEN None
                         ELSE parse_unsigned(Unwrap(rate_property), U32_MAX),
         encoding |-> IF encoding_property = None THEN None
                      ELSE CASE Unwrap(encoding_property) = "16" -> Some("PCM16")
                             [] Unwrap(encoding_property) = "24" -> Some("PCM24")
                             [] Unwrap(encoding_property) = "32" -> Some("PCM24")
                             [] OTHER -> None,
         latency |-> IF latency_property = None THEN None
                     ELSE parse_unsigned(Unwrap(latency_property), U64_MAX)]

CHANInfo(chan_name, service_info) ==
    LET id_property      == get_property(service_info, "id")
        rate_property    == get_property(service_info, "rate")
        encoding_property == get_property(service_info, "en")
        latency_property == get_property(service_info, "latency_ns")
    IN  [name |-> chan_name,
         id   |-> IF id_property = None THEN None
                  ELSE parse_unsigned(Unwrap(id_property), U16_MAX),
         sample_rate |-> IF rate_property = None THEN None
                         ELSE parse_unsigned(Unwrap(rate_property), U32_MAX),
         encoding |-> IF encoding_property = None THEN None
                      ELSE CASE Unwrap(encoding_property) = "16" -> Some("PCM16")
                             [] Unwrap(encoding_property) = "24" -> Some("PCM24")
                             [] Unwrap(encoding_property) = "32" -> Some("PCM32")
                             [] OTHER -> None,
         latency |-> IF latency_property = None THEN None
                     ELSE parse_unsigned(Unwrap(latency_property), U64_MAX)]

----------------------------------------------------------------------------
(* The events the mDNS daemon may deliver: the model's input sets.         *)

DeviceNames == {"studio-a", "studio-b"}

Fullname(device, service) == device \o "." \o service

ChanFullname(chan, device) == chan \o "@" \o device \o "." \o CHAN_SERVICE

NoProps == [k \in {} |-> ""]

\* The address sets a service of the device may report (studio-a has two
\* interfaces, studio-b one).
AddressSets(device) ==
    IF device = "studio-a"
    THEN {{"10.0.0.1"}, {"10.0.1.1"}}
    ELSE {{"10.0.0.2"}}

DbcFullnames == {Fullname(d, DBC_SERVICE) : d \in DeviceNames}

CmcFullnames == {Fullname(d, CMC_SERVICE) : d \in DeviceNames}

ArcFullnames == {Fullname(d, ARC_SERVICE) : d \in DeviceNames}

ChanFullnames == {ChanFullname("mic1", d) : d \in DeviceNames}
                 \cup {ChanFullname("micA", "studio-a")}

DbcServiceInfos ==
    UNION {{[fullname |-> Fullname(d, DBC_SERVICE), addresses |-> a,
             port |-> 4455, props |-> NoProps] : a \in AddressSets(d)}
           : d \in DeviceNames}

CmcServiceInfos ==
    {[fullname |-> Fullname("studio-a", CMC_SERVICE), addresses |-> {"10.0.0.1"},
      port |-> 8800,
      props |-> [id |-> "001dc1fffe50", mf |-> "Audinate", model |-> "AVIO"]],
     [fullname |-> Fullname("studio-b", CMC_SERVICE), addresses |-> {"10.0.0.2"},
      port |-> 8800, props |-> NoProps]}

ArcServiceInfos ==
    {[fullname |-> Fullname("studio-a", ARC_SERVICE), addresses |-> {"10.0.1.1"},
      port |-> 4440,
      props |-> [router_vers |-> "4.4.1.3", router_info |-> "DAI2"]],
     [fullname |-> Fullname("studio-b", ARC_SERVICE), addresses |-> {"10.0.0.2"},
      port |-> 4440, props |-> [router_vers |-> "4.2.1.3"]]}

ChanProps ==
    [full    |-> [id |-> "3", rate |-> "48000", en |-> "24",
                  latency_ns |-> "1000000"],
     partial |-> [rate |-> "fast", en |-> "8", latency_ns |-> "-1"],
     bad_id  |-> [id |-> "three"]]

ChanServiceInfo(chan, device, props) ==
    [fullname |-> ChanFullname(chan, device), addresses |-> {}, port |-> 0,
     props |-> props]

ChanServiceInfos ==
    {ChanServiceInfo("mic1", "studio-a", ChanProps.full),
     ChanServiceInfo("micA", "studio-a", ChanProps.full),
     ChanServiceInfo("mic1", "studio-a", ChanProps.partial),
     ChanServiceInfo("mic1", "studio-a", ChanProps.bad_id),
     ChanServiceInfo("mic1", "studio-b", ChanProps.full)}

----------------------------------------------------------------------------
(* State *)

\* The number of events the workers handle in a run of the model.
MaxEvents == 4

\* What the history keeps of an event: the worker, the event kind, the
\* normalised device name, whether the handler panicked, the outcome of the
\* registry operation, and for a ServiceResolved the info record it built.
Event(cat, kind, name, panic, note, info) ==
    [cat |-> cat, kind |-> kind, name |-> name, panic |-> panic, note |-> note,
     info |-> info]

\* The history before the first subscription call.
NoCall ==
    [op |-> "", version |-> "", rx_device_ip |-> "", rx_channel_id |-> 0,
     tx_device |-> <<>>, tx_channel |-> <<>>, io |-> "", sequence_id |-> None,
     result |-> "", panic |-> FALSE, send_attempts |-> 0]

\* The history before the caller's first query.
NoQuery == [op |-> "", panic |-> FALSE]

Init ==
    /\ device_list = DanteDeviceList_new
    /\ poisoned = FALSE
    /\ last = Event("", "", "", FALSE, "", None)
    /\ handled = 0
    /\ found = EmptyMap
    /\ current_command_sequence_id = 0
    /\ call = NoCall
    /\ wire = None
    /\ normalised = None
    /\ parsed = None
    /\ live = {}
    /\ disciplined = TRUE
    /\ ever_found = {}
    /\ running = FALSE
    /\ workers = <<>>
    /\ query = NoQuery

AddNote(dl, device_name) ==
    IF add_device(dl, device_name).result = "Ok" THEN "added" ELSE "already"

RemoveNote(dl, r, device_name) ==
    IF r.panic THEN "panic"
    ELSE IF device_name \in DOMAIN r.dl.devices THEN "kept" ELSE "removed"

\* The history of ServiceFound events after an event: a device whose events
\* so far were all ServiceFound keeps the set of their categories (clean);
\* any other event for the device ends that.
FoundAfter(event) ==
    LET old == IF event.name \in DOMAIN found THEN found[event.name]
               ELSE [cats |-> {}, clean |-> TRUE]
    IN  MapInsert(found, event.name,
                  IF event.kind = "ServiceFound" /\ old.clean /\ ~event.panic
                  THEN [cats |-> old.cats \cup {event.cat}, clean |-> TRUE]
                  ELSE [cats |-> {}, clean |-> FALSE])

\* The live instances after an event on an instance (a service fullname).
LiveAfter(event, instance) ==
    IF event.kind = "ServiceFound" THEN live \cup {<<event.cat, instance>>}
    ELSE IF event.kind = "ServiceRemoved" THEN live \ {<<event.cat, instance>>}
    ELSE live

\* A handler's step on the registry: the mutex is taken (which panics when
\* it is poisoned, so that nothing is done), the operation runs, and a panic
\* inside it poisons the mutex.  The step belongs to one discovery thread;
\* what becomes of that thread is left to the specification.
Locked(r, event, instance) ==
    /\ handled' = handled + 1
    /\ ~poisoned
    /\ device_list' = r.dl
    /\ poisoned' = r.panic
    /\ last' = event
    /\ found' = FoundAfter(event)
    /\ live' = LiveAfter(event, instance)
    /\ disciplined' = (disciplined /\ (event.kind = "ServiceRemoved" => <<event.cat, instance>> \in live))
    /\ ever_found' = IF event.kind = "ServiceFound" THEN ever_found \cup {<<event.cat, event.name>>} ELSE ever_found
    /\ UNCHANGED <<cmd_vars, pure_vars, running, query>>

----------------------------------------------------------------------------
(* The DBC worker's handlers *)

dbc_ServiceFound(fullname) ==
    LET device_name == cutoff_address(fullname, Some(DBC_SERVICE))
        r == connect_dbc(device_list, device_name)
    IN  /\ handled < MaxEvents
        /\ Locked(r, Event("dbc", "ServiceFound", device_name, r.panic,
                            AddNote(device_list, device_name), None),
               fullname)

dbc_ServiceResolved(service_info) ==
    LET device_name == cutoff_address(service_info.fullname, Some(DBC_SERVICE))
        r == update_dbc(device_list, device_name, DBCInfo(service_info))
    IN  /\ handled < MaxEvents
        /\ Locked(r, Event("dbc", "ServiceResolved", device_name, r.panic,
                            IF r.panic THEN "panic" ELSE "stored",
                            Some(DBCInfo(service_info))),
               service_info.fullname)

dbc_ServiceRemoved(fullname) ==
    LET device_name == cutoff_address(fullname, Some(DBC_SERVICE))
        r == disconnect_dbc(device_list, device_name)
    IN  /\ handled < MaxEvents
        /\ Locked(r, Event("dbc", "ServiceRemoved", device_name, r.panic,
                            RemoveNote(device_list, r, device_name), None),
               fullname)

(* The CMC worker's handlers *)

cmc_ServiceFound(fullname) ==
    LET device_name == cutoff_address(fullname, Some(CMC_SERVICE))
        r == connect_cmc(device_list, device_name)
    IN  /\ handled < MaxEvents
        /\ Locked(r, Event("cmc", "ServiceFound", device_name, r.panic,
                            AddNote(device_list, device_name), None),
               fullname)

cmc_ServiceResolved(service_info) ==
    LET device_name == cutoff_address(service_info.fullname, Some(CMC_SERVICE))
        r == update_cmc(device_list, device_name, CMCInfo(service_info))
    IN  /\ handled < MaxEvents
        /\ Locked(r, Event("cmc", "ServiceResolved", device_name, r.panic,
                            IF r.panic THEN "panic" ELSE "stored",
                            Some(CMCInfo(service_info))),
               service_info.fullname)

cmc_ServiceRemoved(fullname) ==
    LET device_name == cutoff_address(fullname, Some(CMC_SERVICE))
        r == disconnect_cmc(device_list, device_name)
    IN  /\ handled < MaxEvents
        /\ Locked(r, Event("cmc", "ServiceRemoved", device_name, r.panic,
                            RemoveNote(device_list, r, device_name), None),
               fullname)

(* The ARC worker's handlers *)

arc_ServiceFound(fullname) ==
    LET device_name == cutoff_address(fullname, Some(ARC_SERVICE))
        r == connect_arc(device_list, device_name)
    IN  /\ handled < MaxEvents
        /\ Locked(r, Event("arc", "ServiceFound", device_name, r.panic,
                            AddNote(device_list, device_name), None),
               fullname)

arc_ServiceResolved(service_info) ==
    LET device_name == cutoff_address(service_info.fullname, Some(ARC_SERVICE))
        r == update_arc(device_list, device_name, ARCInfo(service_info))
    IN  /\ handled < MaxEvents
        /\ Locked(r, Event("arc", "ServiceResolved", device_name, r.panic,
                            IF r.panic THEN "panic" ELSE "stored",
                            Some(ARCInfo(service_info))),
               service_info.fullname)

arc_ServiceRemoved(fullname) ==
    LET device_name == cutoff_address(fullname, Some(ARC_SERVICE))
        r == disconnect_arc(device_list, device_name)
    IN  /\ handled < MaxEvents
        /\ Locked(r, Event("arc", "ServiceRemoved", device_name, r.panic,
                            RemoveNote(device_list, r, device_name), None),
               fullname)

(* The CHAN worker's handlers.  The fullname is split at its leftmost "@"  *)
(* before the mutex is taken; the input sets hold only names with an "@".  *)

chan_ServiceFound(fullname) ==
    LET split == split_once(fullname, "@")
        device_name == cutoff_address(Unwrap(split)[2], Some(CHAN_SERVICE))
        r == connect_chan(device_list, device_name)
    IN  /\ handled < MaxEvents
        /\ split /= None
        /\ Locked(r, Event("chan", "ServiceFound", device_name, r.panic,
                           AddNote(device_list, device_name), None),
               fullname)

chan_ServiceResolved(service_info) ==
    LET split == split_once(service_info.fullname, "@")
        chan_name == Unwrap(split)[1]
        device_name == cutoff_address(Unwrap(split)[2], Some(CHAN_SERVICE))
        info == CHANInfo(chan_name, service_info)
        r == IF CHANInfo_id_panics(service_info)
             THEN [dl |-> device_list, panic |-> TRUE]
             ELSE update_chan(device_list, device_name, info)
        note == IF r.panic THEN "panic"
                ELSE IF \E c \in device_list.caches[device_name].chan_info :
                            c.id = info.id
                     THEN "replaced" ELSE "inserted"
    IN  /\ handled < MaxEvents
        /\ split /= None
        /\ Locked(r, Event("chan", "ServiceResolved", device_name, r.panic, note,
                           IF CHANInfo_id_panics(service_info) THEN None
                           ELSE Some(info)),
               service_info.fullname)

chan_ServiceRemoved(fullname) ==
    LET split == split_once(fullname, "@")
        device_name == cutoff_address(Unwrap(split)[2], Some(CHAN_SERVICE))
        r == disconnect_chan(device_list, device_name)
    IN  /\ handled < MaxEvents
        /\ split /= None
        /\ Locked(r, Event("chan", "ServiceRemoved", device_name, r.panic,
                           RemoveNote(device_list, r, device_name), None),
               fullname)

----------------------------------------------------------------------------

Next ==
    \/ \E fullname \in DbcFullnames : dbc_ServiceFound(fullname) /\ UNCHANGED workers
    \/ \E service_info \in DbcServiceInfos : dbc_ServiceResolved(service_info) /\ UNCHANGED workers
    \/ \E fullname \in DbcFullnames : dbc_ServiceRemoved(fullname) /\ UNCHANGED workers
    \/ \E fullname \in CmcFullnames : cmc_ServiceFound(fullname) /\ UNCHANGED workers
    \/ \E service_info \in CmcServiceInfos : cmc_ServiceResolved(service_info) /\ UNCHANGED workers
    \/ \E fullname \in CmcFullnames : cmc_ServiceRemoved(fullname) /\ UNCHANGED workers
    \/ \E fullname \in ArcFullnames : arc_ServiceFound(fullname) /\ UNCHANGED workers
    \/ \E service_info \in ArcServiceInfos : arc_ServiceResolved(service_info) /\ UNCHANGED workers
    \/ \E fullname \in ArcFullnames : arc_ServiceRemoved(fullname) /\ UNCHANGED workers
    \/ \E fullname \in ChanFullnames : chan_ServiceFound(fullname) /\ UNCHANGED workers
    \/ \E service_info \in ChanServiceInfos : chan_ServiceResolved(service_info) /\ UNCHANGED workers
    \/ \E fullname \in ChanFullnames : chan_ServiceRemoved(fullname) /\ UNCHANGED workers

Spec == Init /\ [][Next]_vars

----------------------------------------------------------------------------
(* The subscription command codec, lib.rs 764-927.  A byte buffer is a      *)
(* sequence of numbers in 0..255; an AsciiStr is the sequence of its        *)
(* bytes (as_bytes is the identity on them).                                *)

\* The number of values of a u16.
U16_VALUES == 65536

\* A faulty variant: the conversion saturates at u16::MAX.
as_u16_saturating(n) == IF n > 65535 THEN 65535 ELSE n

\* (n as u16): the cast keeps the low 16 bits.
as_u16(n) == n % U16_VALUES

\* A faulty variant: u16::to_le_bytes, the low byte first.
to_le_bytes(v) == <<v % 256, v \div 256>>

\* u16::to_be_bytes
to_be_bytes(v) == <<v \div 256, v % 256>>

\* vec![0x00; n]
Zeros(n) == [i \in 1..n |-> 0]

DANTECOMMANDS_4_4_1_3 == [command_subscription |-> <<52, 16>>]

DANTECOMMANDS_4_2_1_3 == [command_subscription |-> <<48, 16>>]

DanteVersions == {"Dante4_4_1_3", "Dante4_2_1_3"}

\* impl Display for DanteVersion
to_string(version) ==
    CASE version = "Dante4_4_1_3" -> "4.4.1.3"
      [] version = "Dante4_2_1_3" -> "4.2.1.3"

\* A faulty variant: the version is told by the first two numbers.
from_string_by_prefix(string) ==
    IF Len(string) >= 3 /\ SubSeq(string, 1, 3) = "4.4" THEN Some("Dante4_4_1_3")
    ELSE IF Len(string) >= 3 /\ SubSeq(string, 1, 3) = "4.2" THEN Some("Dante4_2_1_3")
    ELSE None

from_string(string) ==
    CASE string = "4.4.1.3" -> Some("Dante4_4_1_3")
      [] string = "4.2.1.3" -> Some("Dante4_2_1_3")
      [] OTHER -> None

get_commands(version) ==
    IF version = "Dante4_4_1_3" THEN DANTECOMMANDS_4_4_1_3 ELSE DANTECOMMANDS_4_2_1_3

\* A faulty variant: the counter is advanced before it is read.
get_new_command_sequence_id_returns_new(self_id, overflow) ==
    [return_id |-> (self_id + 1) % U16_VALUES,
     current |-> (self_id + 1) % U16_VALUES, panic |-> FALSE]

\* self.current_command_sequence_id += 1 on a u16.  At 65535 the addition
\* overflows: a build with overflow checks (the debug profile) panics there,
\* a build without them (the release profile) wraps to 0.  overflow names
\* what the build does: "panics" or "wraps".
get_new_command_sequence_id(self_id, overflow) ==
    IF self_id + 1 >= U16_VALUES /\ overflow = "panics"
    THEN [return_id |-> self_id, current |-> self_id, panic |-> TRUE]
    ELSE [return_id |-> self_id, current |-> (self_id + 1) % U16_VALUES,
          panic |-> FALSE]

\* The 10-byte envelope followed by the arguments; the counter is advanced
\* while the envelope is written.
make_dante_command(self_id, overflow, command, command_args) ==
    LET id == get_new_command_sequence_id(self_id, overflow)
    IN  [buffer  |-> <<40, 48>>
                     \o to_be_bytes(as_u16(Len(command_args) + 10))
                     \o to_be_bytes(id.return_id)
                     \o command
                     \o <<0, 0>>
                     \o command_args,
         sequence_id |-> id.return_id,
         current |-> id.current,
         panic   |-> id.panic]

\* A faulty variant: the device name is written before the channel name.
make_subscription_command_buffer_device_first(version, rx_channel_id, tx_device, tx_channel) ==
    IF version = "Dante4_4_1_3"
    THEN <<0, 0, 0, 0, 0, 0, 8, 0, 32, 1>>
         \o to_be_bytes(rx_channel_id)
         \o <<0, 3, 1, 20>>
         \o to_be_bytes(as_u16(276 + Len(tx_channel) + 1))
         \o Zeros(248)
         \o tx_device \o <<0>> \o tx_channel \o <<0>>
    ELSE <<16, 1>>
         \o to_be_bytes(rx_channel_id)
         \o <<1, 76>>
         \o to_be_bytes(as_u16(332 + Len(tx_channel) + 1))
         \o Zeros(314)
         \o tx_device \o <<0>> \o tx_channel \o <<0>>

\* The command_buffer make_subscription builds, lib.rs 835-874.
make_subscription_command_buffer(version, rx_channel_id, tx_device, tx_channel) ==
    IF version = "Dante4_4_1_3"
    THEN <<0, 0, 0, 0, 0, 0, 8, 0, 32, 1>>
         \o to_be_bytes(rx_channel_id)
         \o <<0, 3, 1, 20>>
         \o to_be_bytes(as_u16(276 + Len(tx_channel) + 1))
         \o Zeros(248)
         \o tx_channel \o <<0>> \o tx_device \o <<0>>
    ELSE <<16, 1>>
         \o to_be_bytes(rx_channel_id)
         \o <<1, 76>>
         \o to_be_bytes(as_u16(332 + Len(tx_channel) + 1))
         \o Zeros(314)
         \o tx_channel \o <<0>> \o tx_device \o <<0>>

\* A faulty variant: the 4.2.1.3 branch keeps the 01 4C of make_subscription.
clear_subscription_command_buffer_keeps_marker(version, rx_channel_id) ==
    IF version = "Dante4_4_1_3"
    THEN <<0, 0, 0, 0, 0, 0, 8, 0, 32, 1>>
         \o to_be_bytes(rx_channel_id)
         \o <<0, 3, 0, 0, 0, 0>>
         \o Zeros(248)
    ELSE <<16, 1>>
         \o to_be_bytes(rx_channel_id)
         \o <<1, 76>>
         \o Zeros(316)

\* The command_buffer clear_subscription builds, lib.rs 892-915.
clear_subscription_command_buffer(version, rx_channel_id) ==
    IF version = "Dante4_4_1_3"
    THEN <<0, 0, 0, 0, 0, 0, 8, 0, 32, 1>>
         \o to_be_bytes(rx_channel_id)
         \o <<0, 3, 0, 0, 0, 0>>
         \o Zeros(248)
    ELSE <<16, 1>>
         \o to_be_bytes(rx_channel_id)
         \o Zeros(318)

\* A faulty variant: a failed send_to is tried a second time.
send_bytes_to_address_retries(address, port, bytes, io) ==
    IF io = "bind_fails"
    THEN [result |-> "Err", send_attempts |-> 0, sent |-> None]
    ELSE IF io = "send_fails"
    THEN [result |-> "Err", send_attempts |-> 2, sent |-> None]
    ELSE [result |-> "Ok", send_attempts |-> 1,
          sent |-> Some([address |-> address, port |-> port, bytes |-> bytes])]

\* What the operating system does with the socket: io is "ok", "bind_fails"
\* or "send_fails".  One bind, then one send_to; the ? operator returns the
\* first error.  The result is Ok or Err, with the datagram that was sent.
send_bytes_to_address(address, port, bytes, io) ==
    IF io = "bind_fails"
    THEN [result |-> "Err", send_attempts |-> 0, sent |-> None]
    ELSE IF io = "send_fails"
    THEN [result |-> "Err", send_attempts |-> 1, sent |-> None]
    ELSE [result |-> "Ok", send_attempts |-> 1,
          sent |-> Some([address |-> address, port |-> port, bytes |-> bytes])]

\* A faulty variant: the socket is bound before the command is built, so
\* that a failed bind leaves the counter as it was.
SubscriptionCall_binds_first(op, version, rx_device_ip, rx_channel_id, tx_device, tx_channel, command_buffer, error, overflow, io) ==
    LET command == make_dante_command(current_command_sequence_id, overflow,
                       get_commands(version).command_subscription, command_buffer)
        port == 4440
        sent == send_bytes_to_address(rx_device_ip, port, command.buffer, io)
        this == [op |-> op, version |-> version, rx_device_ip |-> rx_device_ip,
                 rx_channel_id |-> rx_channel_id, tx_device |-> tx_device,
                 tx_channel |-> tx_channel, io |-> io]
    IN  /\ current_command_sequence_id' = IF io = "bind_fails" THEN current_command_sequence_id
                                        ELSE command.current
        /\ IF command.panic
           THEN /\ call' = this @@ [sequence_id |-> None, result |-> "",
                                    panic |-> TRUE, send_attempts |-> 0]
                /\ wire' = None
           ELSE /\ call' = this @@
                           [sequence_id |-> Some(command.sequence_id),
                            result |-> IF sent.result = "Ok" THEN "Ok" ELSE error,
                            panic |-> FALSE,
                            send_attempts |-> sent.send_attempts]
                /\ wire' = sent.sent
        /\ UNCHANGED <<registry_vars, pure_vars, life_vars>>

\* The step of a subscription call (taken by a caller that has not panicked
\* in an earlier call): the command is built first (it is
\* an argument of send_bytes_to_address), so the counter advances whatever
\* the socket does; a panic in the addition unwinds the caller before
\* anything is sent.  error is the error value the call maps a send failure
\* to.
SubscriptionCall(op, version, rx_device_ip, rx_channel_id, tx_device, tx_channel, command_buffer, error, overflow, io) ==
    LET command == make_dante_command(current_command_sequence_id, overflow,
                       get_commands(version).command_subscription, command_buffer)
        port == 4440
        sent == send_bytes_to_address(rx_device_ip, port, command.buffer, io)
        this == [op |-> op, version |-> version, rx_device_ip |-> rx_device_ip,
                 rx_channel_id |-> rx_channel_id, tx_device |-> tx_device,
                 tx_channel |-> tx_channel, io |-> io]
    IN  /\ current_command_sequence_id' = command.current
        /\ IF command.panic
           THEN /\ call' = this @@ [sequence_id |-> None, result |-> "",
                                    panic |-> TRUE, send_attempts |-> 0]
                /\ wire' = None
           ELSE /\ call' = this @@
                           [sequence_id |-> Some(command.sequence_id),
                            result |-> IF sent.result = "Ok" THEN "Ok" ELSE error,
                            panic |-> FALSE,
                            send_attempts |-> sent.send_attempts]
                /\ wire' = sent.sent
        /\ UNCHANGED <<registry_vars, pure_vars, life_vars>>

make_subscription(version, rx_device_ip, rx_channel_id, tx_device, tx_channel, overflow, io) ==
    /\ ~call.panic
    /\ SubscriptionCall("make_subscription", version, rx_device_ip, rx_channel_id,
                        tx_device, tx_channel,
                        make_subscription_command_buffer(version, rx_channel_id,
                                                         tx_device, tx_channel),
                        "MakeSubscriptionError::ConnectionFailed", overflow, io)

clear_subscription(version, rx_device_ip, rx_channel_id, overflow, io) ==
    /\ ~call.panic
    /\ SubscriptionCall("clear_subscription", version, rx_device_ip,
                        rx_channel_id, <<>>, <<>>,
                        clear_subscription_command_buffer(version, rx_channel_id),
                        "MakeSubscriptionError::ConnectionFailed", overflow, io)

(* Inputs of the subscription calls. *)

Overflows == {"panics", "wraps"}

IoOutcomes == {"ok", "bind_fails", "send_fails"}

RxDeviceIps == {"10.0.0.1", "10.0.0.2"}

\* 0x0007 and 0x0102
RxChannelIds == {7, 258}

\* "dev" and "studio-a"
TxDevices == {<<100, 101, 118>>, <<115, 116, 117, 100, 105, 111, 45, 97>>}

\* "", "ch" and "mic1"
TxChannels == {<<>>, <<99, 104>>, <<109, 105, 99, 49>>}

\* The number of commands a run of SpecCmd builds.
MaxCommands == 2

(* SpecCmd: a caller issuing subscription commands with every input, while *)
(* the DBC worker handles events.                                          *)

NextCmd ==
    \/ /\ current_command_sequence_id < MaxCommands
       /\ \E version \in DanteVersions, rx_device_ip \in RxDeviceIps,
             rx_channel_id \in RxChannelIds, tx_device \in TxDevices,
             tx_channel \in TxChannels, overflow \in Overflows, io \in IoOutcomes :
             make_subscription(version, rx_device_ip, rx_channel_id, tx_device,
                               tx_channel, overflow, io)
    \/ /\ current_command_sequence_id < MaxCommands
       /\ \E version \in DanteVersions, rx_device_ip \in RxDeviceIps,
             rx_channel_id \in RxChannelIds, overflow \in Overflows,
             io \in IoOutcomes :
             clear_subscription(version, rx_device_ip, rx_channel_id, overflow, io)
    \/ dbc_ServiceFound(Fullname("studio-a", DBC_SERVICE)) /\ UNCHANGED workers
    \/ dbc_ServiceRemoved(Fullname("studio-a", DBC_SERVICE)) /\ UNCHANGED workers

SpecCmd == Init /\ [][NextCmd]_vars

(* SpecSeq: one caller issuing make_subscription(version, 10.0.0.1,        *)
(* 0x0005, "dev", "ch") and clear_subscription(version, 10.0.0.1, 0x0007)  *)
(* over and over, through every value of the counter.                      *)

NextSeq ==
    \/ \E version \in DanteVersions, overflow \in Overflows :
          make_subscription(version, "10.0.0.1", 5, <<100, 101, 118>>,
                            <<99, 104>>, overflow, "ok")
    \/ \E version \in DanteVersions, overflow \in Overflows :
          clear_subscription(version, "10.0.0.1", 7, overflow, "ok")

SpecSeq == Init /\ [][NextSeq]_vars

(* SpecFail: one caller issuing make_subscription(4.4.1.3, 10.0.0.1,       *)
(* 0x0005, "dev", "ch") and clear_subscription(4.2.1.3, 10.0.0.1, 0x0007)  *)
(* over and over on a socket that may fail, through every value of the     *)
(* counter.                                                                *)

NextFail ==
    \/ \E overflow \in Overflows, io \in IoOutcomes :
          make_subscription("Dante4_4_1_3", "10.0.0.1", 5, <<100, 101, 118>>,
                            <<99, 104>>, overflow, io)
    \/ \E overflow \in Overflows, io \in IoOutcomes :
          clear_subscription("Dante4_2_1_3", "10.0.0.1", 7, overflow, io)

SpecFail == Init /\ [][NextFail]_vars

(* SpecLong: a caller issuing make_subscription with tx channel names on   *)
(* both sides of the lengths at which payload length + 10 and              *)
(* 276 / 332 + L_ch + 1 pass 65535.                                        *)

\* A name of n bytes: "aaa...a".
LongName(n) == [i \in 1..n |-> 97]

\* With the device "dev": 65198 and 65254 are the last lengths whose
\* datagram (4.2.1.3 resp. 4.4.1.3) has at most 65535 bytes, 65202 and 65258
\* the last whose end_pos is at most 65535.
LongChannelLens ==
    {0, 2, 4, 65198, 65199, 65202, 65203, 65254, 65255, 65258, 65259}

NextLong ==
    \E version \in {"Dante4_4_1_3", "Dante4_2_1_3"}, n \in LongChannelLens,
       overflow \in Overflows, io \in IoOutcomes :
        /\ current_command_sequence_id < MaxCommands
        /\ make_subscription(version, "10.0.0.1", 7, <<100, 101, 118>>,
                             LongName(n), overflow, io)

SpecLong == Init /\ [][NextLong]_vars


----------------------------------------------------------------------------
(* SpecNames: the name normaliser on its own, given names of every shape:  *)
(* with the suffix, with another suffix, with none, with part of one.      *)

Services == {CMC_SERVICE, DBC_SERVICE, ARC_SERVICE, CHAN_SERVICE}

\* Device names as Dante devices carry them (letters, digits, hyphens).
DeviceLabels == {"studio-a", "studio-b", "A1"}

\* What may stand before the suffix of a name: a device name, nothing, a
\* dotted name, a name that itself ends with a service suffix.
NameStems ==
    DeviceLabels \cup {"", "rack.1", "x." \o DBC_SERVICE}

\* What may stand at the end of a name.
NameTails ==
    {"." \o s : s \in Services}
    \cup {"", ".local.", "._netaudio-dbc._udp.local", DBC_SERVICE}

Hostnames == {stem \o tail : stem \in NameStems, tail \in NameTails}

Addresses == {None} \cup {Some(s) : s \in Services}

ChanNames == {"mic1", "", "L@R"}

\* Names the CHAN worker may be given: with an "@", and without one.
ChanHostnames ==
    {c \o "@" \o h : c \in ChanNames, h \in Hostnames}
    \cup {Fullname(d, CHAN_SERVICE) : d \in DeviceLabels}

\* cutoff_address applied to a name, as the handlers of the DBC, CMC and ARC
\* workers apply it.
Normalise(hostname, address) ==
    /\ normalised' = Some([form |-> "device", hostname |-> hostname,
                           address |-> address, chan_name |-> None,
                           panic |-> FALSE,
                           result |-> cutoff_address(hostname, address)])
    /\ UNCHANGED <<registry_vars, cmd_vars, parsed, life_vars>>

\* The CHAN handlers' form, lib.rs 684-687: the name is split at its
\* leftmost "@" (a name without one panics in expect) and the right part is
\* normalised with the CHAN service type.
NormaliseChan(fullname) ==
    LET split == split_once(fullname, "@")
    IN  /\ normalised' =
               IF split = None
               THEN Some([form |-> "chan", hostname |-> fullname,
                          address |-> Some(CHAN_SERVICE), chan_name |-> None,
                          panic |-> TRUE, result |-> ""])
               ELSE Some([form |-> "chan", hostname |-> Unwrap(split)[2],
                          address |-> Some(CHAN_SERVICE),
                          chan_name |-> Some(Unwrap(split)[1]),
                          panic |-> FALSE,
                          result |-> cutoff_address(Unwrap(split)[2],
                                                    Some(CHAN_SERVICE))])
        /\ UNCHANGED <<registry_vars, cmd_vars, parsed, life_vars>>

NextNames ==
    \/ \E hostname \in Hostnames, address \in Addresses :
          Normalise(hostname, address)
    \/ \E fullname \in ChanHostnames : NormaliseChan(fullname)

SpecNames == Init /\ [][NextNames]_vars

----------------------------------------------------------------------------
(* DanteVersion and its text, on their own *)

VersionNumbers == {"4", "2", "1", "3"}

\* Strings a caller may give as a version: every dotted quadruple of the
\* numbers that occur in the two versions, and strings that are near one.
VersionStrings ==
    {a \o "." \o b \o "." \o c \o "." \o d : a, b, c, d \in VersionNumbers}
    \cup {"", "4.4.1.3 ", " 4.2.1.3", "v4.4.1.3", "4.4.1", "4.2.1.3.0", "4,4,1,3",
          "Dante4_4_1_3", "Dante4_2_1_3", "4.4.1.30", "04.2.1.3"}

FromString(string) ==
    /\ parsed' = Some([op |-> "from_string", string |-> string,
                       version |-> from_string(string)])
    /\ UNCHANGED <<registry_vars, cmd_vars, normalised, life_vars>>

\* A version is displayed and the text is parsed again.
ToStringFromString(version) ==
    /\ parsed' = Some([op |-> "to_string", of |-> version, string |-> to_string(version),
                       version |-> from_string(to_string(version))])
    /\ UNCHANGED <<registry_vars, cmd_vars, normalised, life_vars>>

NextVersion ==
    \/ \E string \in VersionStrings : FromString(string)
    \/ \E version \in DanteVersions : ToStringFromString(version)

SpecVersion == Init /\ [][NextVersion]_vars

----------------------------------------------------------------------------
(* The caller's queries *)

\* A faulty variant: the guard of a poisoned mutex is taken all the same.
GetDeviceNames_recovers ==
    /\ \E names \in get_device_names(device_list) :
           query' = [op |-> "get_device_names", at |-> handled, panic |-> FALSE,
                     report |-> names]
    /\ UNCHANGED <<registry_vars, cmd_vars, pure_vars, running, workers>>

\* get_device_names: the mutex is taken with unwrap(), which panics when it
\* is poisoned; the names come in the iteration order of the map.
GetDeviceNames ==
    /\ \E names \in get_device_names(device_list) :
           query' = [op |-> "get_device_names", at |-> handled, panic |-> poisoned,
                     report |-> IF poisoned THEN <<>> ELSE names]
    /\ UNCHANGED <<registry_vars, cmd_vars, pure_vars, running, workers>>

\* get_device_descriptions: as above, and the lookup of a cache is an
\* expect() made while the mutex is held.
GetDeviceDescriptions ==
    LET panics == poisoned \/ get_device_descriptions_panics(device_list)
    IN  /\ query' = [op |-> "get_device_descriptions", at |-> handled, panic |-> panics,
                     report |-> IF panics THEN {}
                                ELSE get_device_descriptions(device_list)]
        /\ poisoned' = panics
        /\ UNCHANGED <<device_list, last, handled, found, live, disciplined, ever_found>>
        /\ UNCHANGED <<cmd_vars, pure_vars, running, workers>>

----------------------------------------------------------------------------
(* The CHAN worker with the caller's report, on channels of many kinds *)

\* TXT records of channels: every encoding the handler knows and one it does
\* not, ids of one, two and three digits, and a record without id.
ReportChanProps ==
    [three       |-> [id |-> "3", rate |-> "48000", en |-> "24", latency_ns |-> "1000000"],
     ten         |-> [id |-> "10", rate |-> "96000", en |-> "32", latency_ns |-> "250000"],
     two_hundred |-> [id |-> "200", rate |-> "44100", en |-> "16", latency_ns |-> "0"],
     ten_other   |-> [id |-> "10", rate |-> "48000", en |-> "8", latency_ns |-> "1000000"],
     no_id       |-> [rate |-> "48000", en |-> "24", latency_ns |-> "1000000"]]

ReportChanServiceInfos ==
    {ChanServiceInfo("mic1", "studio-a", ReportChanProps.three),
     ChanServiceInfo("micA", "studio-a", ReportChanProps.ten),
     ChanServiceInfo("line1", "studio-a", ReportChanProps.two_hundred),
     ChanServiceInfo("mic1", "studio-a", ReportChanProps.ten_other),
     ChanServiceInfo("micA", "studio-a", ReportChanProps.no_id)}

NextChan ==
    \/ \E fullname \in ChanFullnames : chan_ServiceFound(fullname) /\ UNCHANGED workers
    \/ \E service_info \in ReportChanServiceInfos : chan_ServiceResolved(service_info) /\ UNCHANGED workers
    \/ \E fullname \in ChanFullnames : chan_ServiceRemoved(fullname) /\ UNCHANGED workers
    \/ GetDeviceDescriptions

SpecChan == Init /\ [][NextChan]_vars

----------------------------------------------------------------------------
(* The lifecycle: start_discovery, the worker threads, stop_discovery *)

MaxLifeEvents == 2

\* A thread spawned by start_discovery, at the test of its outer loop.  pc
\* is the thread's position: "test" (about to read the run flag), "drain"
\* (in the inner loop, about to call try_recv), "handle" (an event was
\* received and its handler is about to take the registry mutex), "done"
\* (the closure returned) or "aborted" (the thread panicked).
Worker(cat) == [cat |-> cat, pc |-> "test", event |-> None]

\* A faulty variant: the threads of an earlier call are ended before the
\* new ones are spawned.
start_discovery_joins_old ==
    /\ running' = TRUE
    /\ workers' = [w \in DOMAIN workers |->
                       IF workers[w].pc = "aborted" THEN workers[w]
                       ELSE [workers[w] EXCEPT !.pc = "done"]]
                   \o <<Worker("dbc"), Worker("cmc"), Worker("arc"), Worker("chan")>>
    /\ UNCHANGED <<registry_vars, cmd_vars, pure_vars, query>>

start_discovery ==
    /\ running' = TRUE
    /\ workers' = workers \o <<Worker("dbc"), Worker("cmc"), Worker("arc"), Worker("chan")>>
    /\ UNCHANGED <<registry_vars, cmd_vars, pure_vars, query>>

stop_discovery ==
    /\ running' = FALSE
    /\ UNCHANGED <<registry_vars, cmd_vars, pure_vars, workers, query>>

\* The run flag has a mutex of its own, which no thread holds while it can
\* panic.
is_running ==
    /\ query' = [op |-> "is_running", at |-> handled, panic |-> FALSE, report |-> running]
    /\ UNCHANGED <<registry_vars, cmd_vars, pure_vars, running, workers>>

\* A faulty variant: the loop does not read the run flag.
WorkerTest_ignores_flag(w) ==
    /\ w \in DOMAIN workers
    /\ workers[w].pc = "test"
    /\ workers' = [workers EXCEPT ![w].pc = "drain"]
    /\ UNCHANGED <<registry_vars, cmd_vars, pure_vars, running, query>>

\* while *running.lock().unwrap() { ... }
WorkerTest(w) ==
    /\ w \in DOMAIN workers
    /\ workers[w].pc = "test"
    /\ workers' = [workers EXCEPT ![w].pc = IF running THEN "drain" ELSE "done"]
    /\ UNCHANGED <<registry_vars, cmd_vars, pure_vars, running, query>>

\* The events a worker's receiver may hold.  SearchStarted and SearchStopped
\* are only logged and are left out.
LifeEvents(cat) ==
    LET info == CASE cat = "dbc" -> {si \in DbcServiceInfos : si.addresses = {"10.0.0.1"}}
                  [] cat = "cmc" -> {si \in CmcServiceInfos : si.addresses = {"10.0.0.1"}}
                  [] cat = "arc" -> {si \in ArcServiceInfos : si.addresses = {"10.0.1.1"}}
                  [] cat = "chan" -> {ChanServiceInfo("mic1", "studio-a", ChanProps.full),
                                      ChanServiceInfo("mic1", "studio-a", ChanProps.bad_id)}
    IN  {[kind |-> kind, service_info |-> si] :
             kind \in {"ServiceFound", "ServiceResolved", "ServiceRemoved"}, si \in info}

\* The events received and not yet handled.
InFlight == Cardinality({w \in DOMAIN workers : workers[w].pc = "handle"})

\* while let Ok(event) = receiver.try_recv() { ... } sleep(100 ms): an event
\* is taken from the receiver, or there is none and the thread sleeps and
\* goes back to the test of the run flag.
WorkerRecv(w) ==
    /\ w \in DOMAIN workers
    /\ workers[w].pc = "drain"
    /\ \/ /\ handled + InFlight < MaxLifeEvents
          /\ \E event \in LifeEvents(workers[w].cat) :
                 workers' = [workers EXCEPT ![w].pc = "handle", ![w].event = Some(event)]
       \/ workers' = [workers EXCEPT ![w].pc = "test"]
    /\ UNCHANGED <<registry_vars, cmd_vars, pure_vars, running, query>>

\* match event { ... }: the handler of the worker's category for the event.
Handler(cat, event) ==
    LET service_info == event.service_info
        fullname == service_info.fullname
    IN  \/ cat = "dbc" /\ event.kind = "ServiceFound" /\ dbc_ServiceFound(fullname)
        \/ cat = "dbc" /\ event.kind = "ServiceResolved" /\ dbc_ServiceResolved(service_info)
        \/ cat = "dbc" /\ event.kind = "ServiceRemoved" /\ dbc_ServiceRemoved(fullname)
        \/ cat = "cmc" /\ event.kind = "ServiceFound" /\ cmc_ServiceFound(fullname)
        \/ cat = "cmc" /\ event.kind = "ServiceResolved" /\ cmc_ServiceResolved(service_info)
        \/ cat = "cmc" /\ event.kind = "ServiceRemoved" /\ cmc_ServiceRemoved(fullname)
        \/ cat = "arc" /\ event.kind = "ServiceFound" /\ arc_ServiceFound(fullname)
        \/ cat = "arc" /\ event.kind = "ServiceResolved" /\ arc_ServiceResolved(service_info)
        \/ cat = "arc" /\ event.kind = "ServiceRemoved" /\ arc_ServiceRemoved(fullname)
        \/ cat = "chan" /\ event.kind = "ServiceFound" /\ chan_ServiceFound(fullname)
        \/ cat = "chan" /\ event.kind = "ServiceResolved" /\ chan_ServiceResolved(service_info)
        \/ cat = "chan" /\ event.kind = "ServiceRemoved" /\ chan_ServiceRemoved(fullname)

\* The thread's handler runs: on a poisoned mutex lock().expect() (unwrap())
\* panics and the thread is gone with nothing done; otherwise the handler
\* does its registry operation, and a panic in it ends the thread as well.
WorkerHandle(w) ==
    /\ w \in DOMAIN workers
    /\ workers[w].pc = "handle"
    /\ IF poisoned
       THEN /\ workers' = [workers EXCEPT ![w].pc = "aborted"]
            /\ UNCHANGED <<registry_vars, cmd_vars, pure_vars, running, query>>
       ELSE /\ Handler(workers[w].cat, Unwrap(workers[w].event))
            /\ workers' = [workers EXCEPT ![w].pc = IF poisoned' THEN "aborted" ELSE "drain",
                                          ![w].event = IF poisoned' THEN @ ELSE None]

\* The states a thread of the category can be in.
WorkerStates(cat) ==
    {[cat |-> cat, pc |-> pc, event |-> event] :
         pc \in {"test", "drain", "handle", "done", "aborted"},
         event \in {None} \cup {Some(e) : e \in LifeEvents(cat)}}

\* Thread w is scheduled: it has not exited and it moves on from where it
\* is.  In the specifications below these are the steps WorkerTest(w),
\* WorkerRecv(w) and WorkerHandle(w), and a thread that has not exited can
\* always take one.
Scheduled(w) ==
    /\ w \in DOMAIN workers
    /\ workers[w].pc \notin {"done", "aborted"}
    /\ \E next \in WorkerStates(workers[w].cat) \ {workers[w]} :
           workers' = [workers EXCEPT ![w] = next]

\* One call of start_discovery, its four threads, and stop_discovery at any
\* time.
NextWorkers ==
    \/ workers = <<>> /\ start_discovery
    \/ stop_discovery
    \/ \E w \in 1..4 : WorkerTest(w)
    \/ \E w \in 1..4 : WorkerRecv(w)
    \/ \E w \in 1..4 : WorkerHandle(w)

\* The threads are scheduled fairly: a thread that has not exited is not
\* left waiting for ever (the mutexes are held for one operation at a time).
SpecWorkersFair ==
    /\ Init
    /\ [][NextWorkers]_vars
    /\ \A w \in 1..4 : WF_workers(Scheduled(w))

\* The same, with a caller who queries at any time.
NextLife ==
    \/ NextWorkers
    \/ is_running
    \/ GetDeviceNames
    \/ GetDeviceDescriptions

SpecLife == Init /\ [][NextLife]_vars

(* SpecRestart: start_discovery called once more, at any time after the    *)
(* first call: the flag is set again and four more threads are spawned on  *)
(* the same flag and the same registry.  The receivers deliver             *)
(* ServiceFound events only.                                               *)

NextRestart ==
    \/ Len(workers) \in {0, 4} /\ start_discovery
    \/ stop_discovery
    \/ \E w \in 1..8 : WorkerTest(w)
    \/ \E w \in 1..8 :
          /\ WorkerRecv(w)
          /\ workers'[w].pc = "handle" => Unwrap(workers'[w].event).kind = "ServiceFound"
    \/ \E w \in 1..8 : WorkerHandle(w)

SpecRestart == Init /\ [][NextRestart]_vars

----------------------------------------------------------------------------
(* Properties.  devices and caches are the two maps of the registry.       *)

devices == device_list.devices

caches == device_list.caches

Categories == {"dbc", "cmc", "arc", "chan"}

BitField(cat) == "connected_" \o cat

AnyBit(status) ==
    \/ status.connected_dbc \/ status.connected_cmc
    \/ status.connected_arc \/ status.connected_chan

\* The cat bit of device d, false when d has no record.
Bit(dl, d, cat) == d \in DOMAIN dl.devices /\ dl.devices[d][BitField(cat)]

\* C1: every device name that is a key of the presence map is a key of the
\* cache map, so that the cache lookup of get_device_descriptions never fails.
C1_PresenceHasCache ==
    /\ DOMAIN devices \subseteq DOMAIN caches
    /\ ~get_device_descriptions_panics(device_list)

\* A record was created by a ServiceFound and is in the presence map.
C1_Witness ==
    /\ last.kind = "ServiceFound" /\ last.note = "added"
    /\ last.name \in DOMAIN devices

\* C2: after every completed connect or disconnect, every device of the
\* presence map has at least one of its four presence bits set.
C2_PresentHasBit == \A d \in DOMAIN devices : AnyBit(devices[d])

\* A disconnect has completed and left its device in the presence map.
C2_Witness ==
    /\ last.kind = "ServiceRemoved" /\ last.note = "kept"
    /\ last.name \in DOMAIN devices
    /\ ~devices[last.name][BitField(last.cat)]

\* C3: a disconnect of category cat on an existing record clears exactly the
\* cat bit, and the record is removed from the presence map iff none of the
\* four bits remains set; no other record changes.
C3_Disconnect ==
    [][(last'.kind = "ServiceRemoved" /\ last'.name \in DOMAIN devices) =>
         LET d == last'.name
             cleared == [devices[d] EXCEPT ![BitField(last'.cat)] = FALSE]
         IN  /\ ~poisoned'
             /\ IF AnyBit(cleared)
                THEN d \in DOMAIN devices' /\ devices'[d] = cleared
                ELSE d \notin DOMAIN devices'
             /\ \A e \in DOMAIN devices \ {d} :
                    e \in DOMAIN devices' /\ devices'[e] = devices[e]
             /\ DOMAIN devices' \subseteq DOMAIN devices]_vars

\* A device found on DBC and CMC is still present, on CMC alone, after the
\* ServiceRemoved on DBC.
C3_Witness ==
    /\ last = Event("dbc", "ServiceRemoved", "studio-a", FALSE, "kept", None)
    /\ devices["studio-a"] = [DeviceStatus_new EXCEPT !.connected_cmc = TRUE]

\* The operations of a category, by its name.
connect(dl, cat, d) ==
    CASE cat = "dbc" -> connect_dbc(dl, d) [] cat = "cmc" -> connect_cmc(dl, d)
      [] cat = "arc" -> connect_arc(dl, d) [] cat = "chan" -> connect_chan(dl, d)

disconnect(dl, cat, d) ==
    CASE cat = "dbc" -> disconnect_dbc(dl, d) [] cat = "cmc" -> disconnect_cmc(dl, d)
      [] cat = "arc" -> disconnect_arc(dl, d) [] cat = "chan" -> disconnect_chan(dl, d)

\* connect_<cat>(d) immediately followed by disconnect_<cat>(d).
ConnectDisconnect(dl, cat, d) == disconnect(connect(dl, cat, d).dl, cat, d)

\* d has a bit other than cat set.
OtherBits(dl, d, cat) == \E c \in Categories \ {cat} : Bit(dl, d, c)

\* The names the properties quantify over: the devices of the events and a
\* name no event carries.
ProbeNames == DeviceNames \cup {"studio-c"}

\* C4, as claimed: in every registry state, connect_<cat>(d) followed by
\* disconnect_<cat>(d) restores the cat bit of d to the value it had before
\* the pair, and if d had no other bits then d is absent afterwards.
C4_RestoresBit ==
    \A cat \in Categories, d \in ProbeNames :
        LET after == ConnectDisconnect(device_list, cat, d)
        IN  /\ ~after.panic
            /\ Bit(after.dl, d, cat) = Bit(device_list, d, cat)
            /\ ~OtherBits(device_list, d, cat) => d \notin DOMAIN after.dl.devices

\* C4, as amended: the pair leaves the cat bit of d false, which restores the
\* value it had before the pair exactly when the bit was not set before; and
\* if d had no other bits then d is absent afterwards.
C4_ClearsBit ==
    \A cat \in Categories, d \in ProbeNames :
        LET after == ConnectDisconnect(device_list, cat, d)
        IN  /\ ~after.panic
            /\ ~Bit(after.dl, d, cat)
            /\ ~Bit(device_list, d, cat) =>
                   Bit(after.dl, d, cat) = Bit(device_list, d, cat)
            /\ ~OtherBits(device_list, d, cat) => d \notin DOMAIN after.dl.devices

\* The first two events were ServiceFound and ServiceRemoved of studio-a on
\* DBC (no other two events end in this state), and studio-a is absent.
C4_Witness ==
    /\ handled = 2
    /\ last = Event("dbc", "ServiceRemoved", "studio-a", FALSE, "removed", None)
    /\ "studio-a" \notin DOMAIN devices

\* C5: try_add_device applied twice yields the registry that applying it once
\* yields, and applied to a name already present it changes nothing.
C5_TryAddIdempotent ==
    \A n \in ProbeNames :
        LET once  == try_add_device(device_list, n)
            twice == try_add_device(once, n)
        IN  /\ twice = once
            /\ n \in DOMAIN devices => once = device_list

\* A ServiceFound called try_add_device on a device already present: the bit
\* set earlier is still set beside the one set now.
C5_Witness ==
    /\ last.kind = "ServiceFound" /\ last.note = "already"
    /\ \E c \in Categories \ {last.cat} : Bit(device_list, last.name, c)

\* C6: add_device returns DeviceAlreadyPresent for a name in the presence map
\* and then leaves both maps unchanged; otherwise it returns ok and inserts a
\* record with all four bits false.
C6_AddDevice ==
    \A n \in ProbeNames :
        LET r == add_device(device_list, n)
        IN  IF n \in DOMAIN devices
            THEN r.result = "DeviceAlreadyPresent" /\ r.dl = device_list
            ELSE /\ r.result = "Ok"
                 /\ DOMAIN r.dl.devices = DOMAIN devices \cup {n}
                 /\ ~AnyBit(r.dl.devices[n])
                 /\ \A e \in DOMAIN devices : r.dl.devices[e] = devices[e]

\* add_device returned ok for a name that had been present before (its cache
\* holds what an earlier ServiceResolved stored).
C6_Witness ==
    /\ last.kind = "ServiceFound" /\ last.note = "added"
    /\ last.name \in DOMAIN devices
    /\ caches[last.name] /= DeviceDiscoveryCache_new

\* The channel records the CHAN worker builds from the events of the model.
\* together with records of further ids, rates, encodings and latencies.
ChanInfoInputs ==
    {CHANInfo(Unwrap(split_once(si.fullname, "@"))[1], si) :
        si \in {x \in ChanServiceInfos : ~CHANInfo_id_panics(x)}}
    \cup {CHANInfo("mic1", ChanServiceInfo("mic1", "studio-a",
                     [id |-> "+3", rate |-> "96000", en |-> "32"])),
          CHANInfo("line", ChanServiceInfo("line", "studio-a",
                     [id |-> "4", en |-> "16", latency_ns |-> "250000"])),
          CHANInfo("aux", ChanServiceInfo("aux", "studio-a",
                     [id |-> "04", rate |-> "4294967296"]))}

\* C7: for a device with a cache and channel records r1, r2 of the same id
\* (both unset included), update_chan(d, r1) then update_chan(d, r2) leaves
\* exactly one record of that id, r2, and the records of other ids unchanged.
C7_UpdateChanTwice ==
    \A d \in DOMAIN caches :
        \A r1 \in ChanInfoInputs, r2 \in ChanInfoInputs :
            r1.id = r2.id =>
                LET first  == update_chan(device_list, d, r1)
                    second == update_chan(first.dl, d, r2)
                    before == caches[d].chan_info
                    after  == second.dl.caches[d].chan_info
                IN  /\ ~first.panic /\ ~second.panic
                    /\ {c \in after : c.id = r2.id} = {r2}
                    /\ {c \in after : c.id /= r2.id} = {c \in before : c.id /= r2.id}

\* The third event was a ServiceResolved of channel micA with id 3 that
\* replaced the record of id 3 stored by the second event; it is the only one.
C7_Witness ==
    /\ handled = 3
    /\ last.cat = "chan" /\ last.kind = "ServiceResolved" /\ last.note = "replaced"
    /\ last.name = "studio-a"
    /\ last.info = Some(CHANInfo("micA", ChanServiceInfo("micA", "studio-a", ChanProps.full)))
    /\ caches["studio-a"].chan_info = last.info

\* C8: within each device's channel set any two distinct records have
\* different ids: the set ids are pairwise distinct and at most one is unset.
C8_DistinctIds ==
    \A d \in DOMAIN caches :
        \A c1 \in caches[d].chan_info, c2 \in caches[d].chan_info :
            c1 /= c2 => c1.id /= c2.id

\* A channel set of two records, one with a set id and one without, after a
\* ServiceResolved has replaced a record.
C8_Witness ==
    /\ last.cat = "chan" /\ last.note = "replaced"
    /\ Cardinality(caches[last.name].chan_info) = 2
    /\ \E c \in caches[last.name].chan_info : c.id = None
    /\ \E c \in caches[last.name].chan_info : c.id = Some(3)

AddressSlots == {"dbc_info", "cmc_info", "arc_info"}

\* C9: for every present device d, get_device_ips(d) is the union of the
\* address sets of d's populated DBC, CMC and ARC slots (empty when none is
\* populated), so it holds no address that only another device's slots hold.
C9_DeviceIps ==
    \A d \in DOMAIN devices :
        LET ips == get_device_ips(device_list, d)
            populated == {slot \in AddressSlots : caches[d][slot] /= None}
        IN  /\ ips /= None
            /\ Unwrap(ips) = UNION {Unwrap(caches[d][slot]).addresses : slot \in populated}

\* studio-a is present with its DBC and ARC slots populated by different
\* address sets, and its addresses are the two of them.
C9_Witness ==
    /\ "studio-a" \in DOMAIN devices
    /\ caches["studio-a"].dbc_info /= None
    /\ caches["studio-a"].arc_info /= None
    /\ Unwrap(caches["studio-a"].dbc_info).addresses = {"10.0.0.1"}
    /\ get_device_ips(device_list, "studio-a") = Some({"10.0.0.1", "10.0.1.1"})

ProbeIds == {3, 4}

\* C10: channel_id_exist(name, id) is true iff the device is present and its
\* channel set holds a record whose id is set and equal to id;
\* get_channel_name_from_id(name, id) returns the name of that record exactly
\* then and none otherwise; after an update_chan on a present device it
\* returns the name of the record just stored.
C10_ChannelLookup ==
    /\ \A n \in ProbeNames, id \in ProbeIds :
          LET holders == IF n \in DOMAIN devices
                         THEN {c \in caches[n].chan_info : c.id = Some(id)}
                         ELSE {}
          IN  /\ channel_id_exist(device_list, n, id) <=> holders /= {}
              /\ Cardinality(holders) <= 1
              /\ get_channel_name_from_id(device_list, n, id) =
                     IF holders = {} THEN None ELSE Some(Unwrap(holders).name)
    /\ ( /\ last.cat = "chan" /\ last.kind = "ServiceResolved" /\ ~last.panic
         /\ Unwrap(last.info).id /= None
         /\ last.name \in DOMAIN devices )
       => get_channel_name_from_id(device_list, last.name,
                                   Unwrap(Unwrap(last.info).id))
              = Some(Unwrap(last.info).name)

\* A ServiceResolved has replaced the record of id 3 of the present device
\* studio-a, and the lookup by id 3 returns the new name.
C10_Witness ==
    /\ last.cat = "chan" /\ last.note = "replaced"
    /\ channel_id_exist(device_list, "studio-a", 3)
    /\ ~channel_id_exist(device_list, "studio-a", 4)
    /\ get_channel_name_from_id(device_list, "studio-a", 3) = Some("micA")
    /\ get_channel_name_from_id(device_list, "studio-b", 3) = None

----------------------------------------------------------------------------
(* Properties of the subscription commands. *)

\* A step in which make_subscription or clear_subscription was called.
CallStep == call' /= call

\* The sequence number the envelope of a datagram carries (bytes 4-5).
SequenceIn(bytes) == bytes[5] * 256 + bytes[6]

\* C11: the first command a fresh manager builds carries sequence number 0,
\* and each later command carries the sequence number of the command built
\* before it plus 1, modulo 2^16; a datagram that is sent carries the
\* sequence number of its command.
C11_SequenceNumbers ==
    [][(CallStep /\ ~call'.panic) =>
          /\ call'.sequence_id /= None
          /\ IF call = NoCall
             THEN Unwrap(call'.sequence_id) = 0
             ELSE Unwrap(call'.sequence_id)
                      = (Unwrap(call.sequence_id) + 1) % 65536
          /\ wire' /= None =>
                 SequenceIn(Unwrap(wire').bytes) = Unwrap(call'.sequence_id)]_vars

\* The command numbered 65535 has been built and sent, and the counter has
\* wrapped: the next command carries 0.
C11_Witness ==
    /\ call.sequence_id = Some(65535)
    /\ current_command_sequence_id = 0
    /\ wire /= None
    /\ SequenceIn(Unwrap(wire).bytes) = 65535

\* C12, as claimed: a call made when the counter is 65535 does not abort,
\* its command carries 65535, and it leaves the counter at 0.
C12_OverflowNonFatal ==
    [][(CallStep /\ current_command_sequence_id = 65535) =>
          /\ ~call'.panic
          /\ call'.sequence_id = Some(65535)
          /\ current_command_sequence_id' = 0]_vars

\* The payload of a datagram: what follows the 10-byte envelope.
Payload(bytes) == SubSeq(bytes, 11, Len(bytes))

\* The byte at a 0-based offset of a buffer, and the big-endian u16 there.
ByteAt(buffer, offset) == buffer[offset + 1]

U16At(buffer, offset) == ByteAt(buffer, offset) * 256 + ByteAt(buffer, offset + 1)

\* The bytes of "dev" and "ch".
Ascii_dev == <<100, 101, 118>>

Ascii_ch == <<99, 104>>

\* C13: every datagram sent is the 10-byte envelope followed by the payload
\* of its command: 28 30, the payload length + 10 as a big-endian u16 (which
\* is the length of the datagram), the big-endian sequence number, the
\* command code 34 10 (version 4.4.1.3) or 30 10 (version 4.2.1.3) for set
\* and clear alike, then 00 00; make_subscription of version 4.4.1.3 with
\* "dev" and "ch" starts 28 30 01 1B and is 283 bytes long.
C13_Envelope ==
    wire /= None =>
        LET bytes == Unwrap(wire).bytes
        IN  /\ Len(bytes) >= 10
            /\ ByteAt(bytes, 0) = 40 /\ ByteAt(bytes, 1) = 48
            /\ U16At(bytes, 2) = Len(Payload(bytes)) + 10
            /\ U16At(bytes, 2) = Len(bytes)
            /\ U16At(bytes, 4) = Unwrap(call.sequence_id)
            /\ <<ByteAt(bytes, 6), ByteAt(bytes, 7)>>
                   = IF call.version = "Dante4_4_1_3" THEN <<52, 16>> ELSE <<48, 16>>
            /\ ByteAt(bytes, 8) = 0 /\ ByteAt(bytes, 9) = 0
            /\ Payload(bytes)
                   = IF call.op = "make_subscription"
                     THEN make_subscription_command_buffer(call.version,
                              call.rx_channel_id, call.tx_device, call.tx_channel)
                     ELSE clear_subscription_command_buffer(call.version,
                              call.rx_channel_id)
            /\ ( /\ call.op = "make_subscription"
                 /\ call.version = "Dante4_4_1_3"
                 /\ call.tx_device = Ascii_dev /\ call.tx_channel = Ascii_ch )
               => /\ SubSeq(bytes, 1, 4) = <<40, 48, 1, 27>>
                  /\ Len(bytes) = 283

\* The 259th command of a manager, a make_subscription of version 4.4.1.3,
\* has been sent: its sequence number is 01 02.
C13_Witness ==
    /\ wire /= None
    /\ call.op = "make_subscription"
    /\ call.version = "Dante4_4_1_3"
    /\ call.sequence_id = Some(258)
    /\ SubSeq(Unwrap(wire).bytes, 1, 10) = <<40, 48, 1, 27, 1, 2, 52, 16, 0, 0>>

\* C14: the payload of a make_subscription datagram has length
\* B + L_ch + 1 + L_dev + 1 with B = 266 (version 4.4.1.3) or 322 (version
\* 4.2.1.3); the channel name is at offset B and is followed by 00, then
\* comes the device name followed by 00; the rx channel id is big-endian at
\* offset 10 resp. 2; end_pos at offset 16 resp. 6 is 276 + L_ch + 1 resp.
\* 332 + L_ch + 1 (279 and 335 for "ch"); the datagram goes to the receiver
\* IP, UDP port 4440.
C14_MakeSubscriptionPayload ==
    (wire /= None /\ call.op = "make_subscription") =>
        LET payload == Payload(Unwrap(wire).bytes)
            v44   == call.version = "Dante4_4_1_3"
            B     == IF v44 THEN 266 ELSE 322
            L_ch  == Len(call.tx_channel)
            L_dev == Len(call.tx_device)
            end_pos == U16At(payload, IF v44 THEN 16 ELSE 6)
        IN  /\ Len(payload) = B + L_ch + 1 + L_dev + 1
            /\ SubSeq(payload, B + 1, B + L_ch) = call.tx_channel
            /\ ByteAt(payload, B + L_ch) = 0
            /\ SubSeq(payload, B + L_ch + 2, B + L_ch + 1 + L_dev) = call.tx_device
            /\ ByteAt(payload, B + L_ch + 1 + L_dev) = 0
            /\ U16At(payload, IF v44 THEN 10 ELSE 2) = call.rx_channel_id
            /\ end_pos = (IF v44 THEN 276 ELSE 332) + L_ch + 1
            /\ call.tx_channel = Ascii_ch => end_pos = (IF v44 THEN 279 ELSE 335)
            /\ Unwrap(wire).address = call.rx_device_ip
            /\ Unwrap(wire).port = 4440

\* make_subscription(4.2.1.3, 10.0.0.2, 0x0102, "dev", "ch") has been sent:
\* a payload of 329 bytes.
C14_Witness ==
    /\ wire /= None
    /\ call.op = "make_subscription"
    /\ call.version = "Dante4_2_1_3"
    /\ call.rx_channel_id = 258
    /\ call.tx_device = Ascii_dev /\ call.tx_channel = Ascii_ch
    /\ Unwrap(wire).address = "10.0.0.2"
    /\ Len(Payload(Unwrap(wire).bytes)) = 329

\* C15: the payload of a clear_subscription datagram is 266 bytes for
\* version 4.4.1.3 (the fixed 10-byte prefix, the rx id at offsets 10-11,
\* 00 03 at 12-13, zero from offset 18 on) and 322 bytes for version 4.2.1.3
\* (10 01, the rx id at offsets 2-3, zero from offset 4 on); the datagrams
\* are 276 and 332 bytes long.
C15_ClearSubscriptionPayload ==
    (wire /= None /\ call.op = "clear_subscription") =>
        LET bytes == Unwrap(wire).bytes
            payload == Payload(bytes)
        IN  IF call.version = "Dante4_4_1_3"
            THEN /\ Len(payload) = 266
                 /\ SubSeq(payload, 1, 10) = <<0, 0, 0, 0, 0, 0, 8, 0, 32, 1>>
                 /\ U16At(payload, 10) = call.rx_channel_id
                 /\ ByteAt(payload, 12) = 0 /\ ByteAt(payload, 13) = 3
                 /\ \A offset \in 18..265 : ByteAt(payload, offset) = 0
                 /\ Len(bytes) = 276
            ELSE /\ Len(payload) = 322
                 /\ ByteAt(payload, 0) = 16 /\ ByteAt(payload, 1) = 1
                 /\ U16At(payload, 2) = call.rx_channel_id
                 /\ \A offset \in 4..321 : ByteAt(payload, offset) = 0
                 /\ Len(bytes) = 332

\* clear_subscription(4.2.1.3, 10.0.0.1, 0x0007) has been sent: 332 bytes,
\* 00 07 at payload offsets 2-3.
C15_Witness ==
    /\ wire /= None
    /\ call.op = "clear_subscription"
    /\ call.version = "Dante4_2_1_3"
    /\ call.rx_channel_id = 7
    /\ Unwrap(wire).address = "10.0.0.1"
    /\ Len(Unwrap(wire).bytes) = 332
    /\ SubSeq(Payload(Unwrap(wire).bytes), 3, 4) = <<0, 7>>

\* C16: a make_subscription call returns ConnectionFailed when the bind or
\* the send fails and Ok otherwise, makes at most one send attempt, puts a
\* datagram on the network exactly when it returns Ok, and leaves the
\* registry as it was.
C16_MakeSubscriptionResult ==
    [][(CallStep /\ call'.op = "make_subscription") =>
          /\ call'.result = IF call'.io \in {"bind_fails", "send_fails"}
                            THEN "MakeSubscriptionError::ConnectionFailed"
                            ELSE "Ok"
          /\ call'.send_attempts <= 1
          /\ (wire' /= None) <=> (call'.result = "Ok")
          /\ device_list' = device_list
          /\ poisoned' = poisoned]_vars

\* A make_subscription whose send_to failed has returned ConnectionFailed
\* after one attempt, while a device is present in the registry.
C16_Witness ==
    /\ call.op = "make_subscription"
    /\ call.io = "send_fails"
    /\ call.result = "MakeSubscriptionError::ConnectionFailed"
    /\ call.send_attempts = 1
    /\ wire = None
    /\ "studio-a" \in DOMAIN device_list.devices

\* C17, as claimed: a clear_subscription whose bind or send failed returns
\* the error value ClearSubscriptionError::ConnectionFailed.
C17_ClearSubscriptionError ==
    (call.op = "clear_subscription" /\ call.io \in {"bind_fails", "send_fails"})
        => call.result = "ClearSubscriptionError::ConnectionFailed"

----------------------------------------------------------------------------
(* Properties of the workers. *)

\* A TXT value of a channel that is present but does not parse.
Unparsable(service_info, key) ==
    /\ key \in DOMAIN service_info.props
    /\ CASE key = "id" -> parse_unsigned(service_info.props[key], U16_MAX) = None
         [] key = "rate" -> parse_unsigned(service_info.props[key], U32_MAX) = None
         [] key = "en" -> service_info.props[key] \notin {"16", "24", "32"}
         [] key = "latency_ns" ->
                parse_unsigned(service_info.props[key], U64_MAX) = None

\* The field of a channel record a TXT key is parsed into.
FieldOf(key) ==
    CASE key = "id" -> "id" [] key = "rate" -> "sample_rate"
      [] key = "en" -> "encoding" [] key = "latency_ns" -> "latency"

\* C18, as claimed: when the CHAN worker handles a ServiceResolved for a
\* device that has a cache and a TXT value for id, rate, en or latency_ns is
\* present but does not parse, the worker does not panic (the mutex is not
\* poisoned) and the channel set of the device holds the record of the
\* event with that field unset.
C18_ParseFailureLeavesUnset ==
    [][\A service_info \in ChanServiceInfos, key \in {"id", "rate", "en", "latency_ns"} :
          LET split == Unwrap(split_once(service_info.fullname, "@"))
              device_name == cutoff_address(split[2], Some(CHAN_SERVICE))
          IN  ( /\ last'.cat = "chan" /\ last'.kind = "ServiceResolved"
                /\ chan_ServiceResolved(service_info)
                /\ Unparsable(service_info, key)
                /\ device_name \in DOMAIN device_list.caches )
              => /\ ~poisoned'
                 /\ ~last'.panic
                 /\ \E c \in device_list'.caches[device_name].chan_info :
                        c.name = split[1] /\ c[FieldOf(key)] = None]_vars

\* The devices whose events so far are the ServiceFound of the DBC worker
\* and the ServiceFound of the CMC worker.
FoundByDbcAndCmc ==
    {d \in DOMAIN found : found[d].clean /\ found[d].cats = {"dbc", "cmc"}}

\* C19: once the DBC worker and the CMC worker have both handled a
\* ServiceFound for a device, in either order and whatever the workers handled
\* for other devices in between or since, every list get_device_names may
\* return holds the device name exactly once, and the dbc and cmc bits of its
\* record are set.
C19_FoundAggregates ==
    \A d \in FoundByDbcAndCmc :
        /\ \A names \in get_device_names(device_list) :
               Cardinality({i \in DOMAIN names : names[i] = d}) = 1
        /\ Bit(device_list, d, "dbc")
        /\ Bit(device_list, d, "cmc")

\* The CMC worker handled ServiceFound for studio-a before the DBC worker
\* did, and an event for studio-b was handled as well.
C19_Witness ==
    /\ "studio-a" \in FoundByDbcAndCmc
    /\ last.cat = "dbc" /\ last.kind = "ServiceFound" /\ last.name = "studio-a"
    /\ "studio-b" \in DOMAIN found
    /\ handled = 3

----------------------------------------------------------------------------
(* Properties of the name normaliser. *)

\* The strings p with p \o suffix = s: none, or the one stem of s.
StemsOf(s, suffix) ==
    {p \in {SubSeq(s, 1, i) : i \in 0..Len(s)} : p \o suffix = s}

\* C20: cutoff_address(h, s) returns h without its trailing "." \o s when h
\* ends with it (s is "local." when no suffix is given) and h itself, without
\* aborting, when it does not; so the instance name of a device in each of
\* the four categories (for CHAN, the part right of the "@") normalises to
\* the device name, which does not end with the service suffix.
C20_CutoffAddress ==
    normalised /= None =>
        LET n == Unwrap(normalised)
            s == IF n.address = None THEN "local." ELSE Unwrap(n.address)
            stems == StemsOf(n.hostname, "." \o s)
        IN  /\ n.form = "device" => ~n.panic
            /\ ~n.panic =>
                  /\ stems /= {} => n.result \in stems
                  /\ stems = {} => n.result = n.hostname
                  /\ \A d \in DeviceLabels :
                        n.hostname = Fullname(d, s) =>
                            /\ n.result = d
                            /\ StemsOf(n.result, "." \o s) = {}

\* The CHAN form has normalised "mic1@studio-a._netaudio-chan._udp.local.".
C20_Witness ==
    /\ normalised /= None
    /\ Unwrap(normalised).form = "chan"
    /\ Unwrap(normalised).chan_name = Some("mic1")
    /\ Unwrap(normalised).hostname = Fullname("studio-a", CHAN_SERVICE)
    /\ Unwrap(normalised).result = "studio-a"

----------------------------------------------------------------------------
(* The lifetime of caches *)

\* C22: the cache map is never pruned: a key of the cache map stays a key in
\* every later state, also when its record leaves the presence map, and a
\* ServiceFound that creates the record of a device that has a cache leaves
\* the cache's info slots and channel set as they were.
C22_CachesNeverPruned ==
    [][/\ DOMAIN caches \subseteq DOMAIN caches'
       /\ \A d \in DOMAIN caches :
              (d \notin DOMAIN devices /\ d \in DOMAIN devices') =>
                  caches'[d] = caches[d]]_vars

\* A ServiceFound has created the record of a device whose cache holds what
\* was stored before its earlier record was removed.
C22_Witness ==
    /\ last.kind = "ServiceFound" /\ last.note = "added"
    /\ last.name \in DOMAIN devices
    /\ caches[last.name] /= DeviceDiscoveryCache_new

----------------------------------------------------------------------------
(* The connect/disconnect discipline *)

\* C25: when, within each category, every ServiceRemoved handled so far was
\* for a service instance whose ServiceFound had been handled and that was
\* not yet removed, no ServiceRemoved fails: disconnect_<cat> finds the
\* device's record in the presence map and check_remove does not return
\* DeviceNotPresent.
C25_DisciplinedDisconnect ==
    disciplined => ~(last.kind = "ServiceRemoved" /\ last.panic)

\* C26: a ServiceResolved for a device whose ServiceFound of the same
\* category was handled before finds the device's cache: the expectation
\* "Tried updating cache of device that doesn't exist" of update_<cat> does
\* not fail, also when the device's record has left the presence map.  (A
\* ServiceResolved whose info is unset is the CHAN handler's failed id parse,
\* which never reaches update_chan.)
C26_DisciplinedUpdate ==
    [][(last'.kind = "ServiceResolved" /\ <<last'.cat, last'.name>> \in ever_found) =>
         /\ last'.name \in DOMAIN caches
         /\ last'.info /= None => (~last'.panic /\ ~poisoned')]_vars

\* A ServiceResolved was stored for a device that was found in the same
\* category and whose record has since been removed.
C26_Witness ==
    /\ last.kind = "ServiceResolved" /\ ~last.panic
    /\ <<last.cat, last.name>> \in ever_found
    /\ last.name \notin DOMAIN devices
    /\ last.name \in DOMAIN caches

----------------------------------------------------------------------------
(* Frame effects of the registry operations *)

InfoSlot(cat) == cat \o "_info"

InfoSlots == {InfoSlot(cat) : cat \in Categories}

\* C27: each registry mutation touches only its own slot.  A completed
\* update_<cat>(d, info) leaves the presence map, every other device's cache
\* and d's other slots unchanged, and writes info into d's cat slot (for
\* chan: only the record with info's id is replaced or added); connect_<cat>(d)
\* on an existing record changes only d's cat bit and no cache;
\* disconnect_<cat>(d) changes no cache.
C27_FrameEffects ==
    [][LET d == last'.name
           cat == last'.cat
       IN  /\ (last'.kind = "ServiceResolved" /\ ~last'.panic) =>
                 LET info == Unwrap(last'.info)
                 IN  /\ devices' = devices
                     /\ DOMAIN caches' = DOMAIN caches
                     /\ \A e \in DOMAIN caches \ {d} : caches'[e] = caches[e]
                     /\ \A slot \in InfoSlots \ {InfoSlot(cat)} :
                            caches'[d][slot] = caches[d][slot]
                     /\ IF cat = "chan"
                        THEN caches'[d].chan_info =
                                 {c \in caches[d].chan_info : c.id /= info.id} \cup {info}
                        ELSE caches'[d][InfoSlot(cat)] = Some(info)
           /\ (last'.kind = "ServiceFound" /\ d \in DOMAIN devices) =>
                 /\ devices' = [devices EXCEPT ![d][BitField(cat)] = TRUE]
                 /\ caches' = caches
           /\ last'.kind = "ServiceRemoved" => caches' = caches]_vars

\* An info was stored in one slot of a cache whose other slots were filled,
\* for a device that is not the only one.
C27_Witness ==
    /\ last.kind = "ServiceResolved" /\ ~last.panic
    /\ \E slot \in InfoSlots \ {InfoSlot(last.cat)} : caches[last.name][slot] /= None
    /\ DOMAIN caches /= {last.name}

----------------------------------------------------------------------------
(* The order of channels in the report *)

\* The latest query was get_device_descriptions, it returned, and no event
\* has been handled since: its report is of the present registry.
FreshReport ==
    /\ query.op = "get_device_descriptions"
    /\ ~query.panic
    /\ query.at = handled

\* x may be listed before y when unset ids go last.
UnsetLast(x, y) ==
    \/ y.id = None
    \/ x.id /= None /\ Unwrap(x.id) <= Unwrap(y.id)

\* x may be listed before y when unset ids go first.
UnsetFirst(x, y) ==
    \/ x.id = None
    \/ y.id /= None /\ Unwrap(x.id) <= Unwrap(y.id)

\* The listings of the names of a channel set in which every record is
\* listed once and in an order MayPrecede allows.
Listings(chan_info, MayPrecede(_, _)) ==
    LET n == Cardinality(chan_info)
    IN  {[i \in 1..n |-> order[i].name] :
             order \in {o \in [1..n -> chan_info] :
                            /\ \A i, j \in 1..n : o[i] = o[j] => i = j
                            /\ \A i, j \in 1..n : i < j => MayPrecede(o[i], o[j])}}

\* C23 as stated: in the report of get_device_descriptions the channels of
\* each device are listed in ascending order of id, those with unset id
\* after all those with a set id.
C23_ChannelOrder ==
    FreshReport =>
        \A description \in query.report :
            description.channels \in Listings(caches[description.device].chan_info, UnsetLast)

\* C23 (amended): in the report of get_device_descriptions the channels of
\* each device are listed in ascending order of id, a channel with unset id
\* before all those with a set id.
C23_ChannelOrderUnsetFirst ==
    FreshReport =>
        \A description \in query.report :
            description.channels \in Listings(caches[description.device].chan_info, UnsetFirst)

\* A report lists a device with two channels of different set ids and one
\* of unset id.
C23_Witness ==
    /\ FreshReport
    /\ \E description \in query.report :
           LET chan_info == caches[description.device].chan_info
           IN  /\ \E c \in chan_info : c.id = None
               /\ \E c1, c2 \in chan_info :
                      c1.id /= None /\ c2.id /= None /\ c1.id /= c2.id
               /\ Len(description.channels) = 3

----------------------------------------------------------------------------
(* The channel record stored by the CHAN worker *)

\* Channels announced with all four TXT properties, with the values the
\* properties stand for.
FullTxtCases ==
    {[chan |-> "mic1", props |-> ReportChanProps.three, id |-> 3, rate |-> 48000,
      encoding |-> Some("PCM24"), latency_ns |-> 1000000],
     [chan |-> "micA", props |-> ReportChanProps.ten, id |-> 10, rate |-> 96000,
      encoding |-> Some("PCM32"), latency_ns |-> 250000],
     [chan |-> "line1", props |-> ReportChanProps.two_hundred, id |-> 200, rate |-> 44100,
      encoding |-> Some("PCM16"), latency_ns |-> 0],
     [chan |-> "mic1", props |-> ReportChanProps.ten_other, id |-> 10, rate |-> 48000,
      encoding |-> None, latency_ns |-> 1000000]}

\* C28: when the CHAN worker handles a ServiceResolved with fullname
\* "<ch>@<dev>.<chan service type>" and TXT id=i, rate=r, en=e, latency_ns=l
\* for a device that has a cache, the channel set of <dev> afterwards holds
\* exactly one record with id i: its name is <ch>, its rate r, its encoding
\* PCM16/PCM24/PCM32 for e = "16"/"24"/"32" and unset for another e, and its
\* latency l nanoseconds.
C28_ChanResolvedRecord ==
    [][\A case \in FullTxtCases :
           (/\ last'.cat = "chan" /\ last'.kind = "ServiceResolved"
            /\ "studio-a" \in DOMAIN caches
            /\ chan_ServiceResolved(ChanServiceInfo(case.chan, "studio-a", case.props))) =>
               {c \in caches'["studio-a"].chan_info : c.id = Some(case.id)} =
                   {[name |-> case.chan, id |-> Some(case.id),
                     sample_rate |-> Some(case.rate), encoding |-> case.encoding,
                     latency |-> Some(case.latency_ns)]}]_vars

\* The record of channel 10 was replaced by one of another name and of an
\* encoding the handler does not know, beside a record of another id.
C28_Witness ==
    /\ last.cat = "chan" /\ last.kind = "ServiceResolved" /\ last.note = "replaced"
    /\ last.info = Some([name |-> "mic1", id |-> Some(10), sample_rate |-> Some(48000),
                         encoding |-> None, latency |-> Some(1000000)])
    /\ Cardinality(caches["studio-a"].chan_info) = 2

----------------------------------------------------------------------------
(* The chan bit and the channels of a device *)

\* The two channels of studio-a.
ChannelsOfStudioA == {ChanFullname("mic1", "studio-a"), ChanFullname("micA", "studio-a")}

\* C29: the chan bit is one boolean per device, not a count of channels:
\* when ServiceFound was handled for two channels of a device and neither
\* was removed, a ServiceRemoved for either sets the device's chan bit to
\* false, and removes the record iff no other category bit is set, while
\* the other channel is still found.
C29_ChanBitIsBoolean ==
    [][\A removed \in ChannelsOfStudioA :
           (/\ \A channel \in ChannelsOfStudioA : <<"chan", channel>> \in live
            /\ last'.cat = "chan" /\ last'.kind = "ServiceRemoved"
            /\ chan_ServiceRemoved(removed)) =>
               /\ ~last'.panic
               /\ ~Bit(device_list', "studio-a", "chan")
               /\ "studio-a" \in DOMAIN devices' <=> OtherBits(device_list, "studio-a", "chan")
               /\ \E channel \in ChannelsOfStudioA \ {removed} :
                      <<"chan", channel>> \in live']_vars

\* After the ServiceRemoved of one of two found channels (the removed one was
\* found: the discipline holds) the record is gone while the other channel
\* is still found.
C29_Witness ==
    /\ last = Event("chan", "ServiceRemoved", "studio-a", FALSE, "removed", None)
    /\ disciplined
    /\ \E channel \in ChannelsOfStudioA : <<"chan", channel>> \in live
    /\ "studio-a" \notin DOMAIN devices

----------------------------------------------------------------------------
(* DanteVersion::from_string *)

\* C24: from_string gives a version for exactly the strings "4.4.1.3" and
\* "4.2.1.3", each its own, and none for every other string; a version's
\* display form parses back to the version.
C24_FromString ==
    parsed /= None =>
        LET p == Unwrap(parsed)
        IN  /\ p.version = (IF p.string = "4.4.1.3" THEN Some("Dante4_4_1_3")
                            ELSE IF p.string = "4.2.1.3" THEN Some("Dante4_2_1_3")
                            ELSE None)
            /\ p.version /= None <=> p.string \in {"4.4.1.3", "4.2.1.3"}
            /\ p.op = "to_string" => p.version = Some(p.of)

\* A version was displayed and parsed back.
C24_Witness ==
    /\ parsed /= None
    /\ Unwrap(parsed).op = "to_string"
    /\ Unwrap(parsed).version = Some("Dante4_2_1_3")

----------------------------------------------------------------------------
(* Cancellation *)

Exited(w) == workers[w].pc \in {"done", "aborted"}

\* C21: once stop_discovery has set the run flag to false (no start_discovery
\* follows it), every worker eventually leaves its loop and terminates, the
\* receivers holding finitely many events and the threads being scheduled
\* fairly; and a worker does not return in the middle of an event: it
\* returns only from the test of the run flag, with no event in hand, so
\* that a handler that has begun runs to the end of its registry operation.
C21_StopTerminates ==
    /\ [](((workers /= <<>>) /\ ~running) => <>(\A w \in DOMAIN workers : Exited(w)))
    /\ [][\A w \in DOMAIN workers :
              (workers'[w].pc = "done" /\ workers[w].pc /= "done") =>
                  /\ workers[w].pc = "test"
                  /\ workers[w].event = None
                  /\ ~running]_vars

\* The run flag is false, a worker is about to handle an event it received
\* before, and another worker has returned.
C21_Witness ==
    /\ ~running
    /\ \E w \in DOMAIN workers : workers[w].pc = "handle"
    /\ \E w \in DOMAIN workers : workers[w].pc = "done"

----------------------------------------------------------------------------
(* Poisoning of the registry mutex *)

Getters == {"get_device_names", "get_device_descriptions"}

\* C30: a worker that panics in its handler, which holds the registry
\* mutex, leaves the mutex poisoned for good; from then on every other
\* worker aborts at the next event it handles, changing nothing, and the
\* queries get_device_names and get_device_descriptions abort; is_running,
\* on the run flag's own mutex, still answers, and a worker still reads the
\* flag at the test of its loop and returns when it is false.
C30_PoisonCascade ==
    /\ [][/\ poisoned => poisoned'
          /\ \A w \in DOMAIN workers :
                 /\ (~poisoned /\ workers[w].pc = "handle" /\ workers'[w].pc = "aborted") =>
                        poisoned'
                 /\ (poisoned /\ workers[w].pc = "handle" /\ workers'[w].pc /= "handle") =>
                        /\ workers'[w].pc = "aborted"
                        /\ device_list' = device_list
                 /\ (poisoned /\ workers[w].pc = "test" /\ workers'[w].pc /= "test") =>
                        workers'[w].pc = (IF running THEN "drain" ELSE "done")]_vars
    /\ [](poisoned =>
            /\ (query.op \in Getters /\ query.at = handled) => query.panic
            /\ query.op = "is_running" => ~query.panic)

\* The mutex is poisoned, two workers have aborted (the one that panicked in
\* its handler and one at the event it handled next), a query has aborted,
\* and a worker has returned on reading the run flag.
C30_Witness ==
    /\ poisoned
    /\ Cardinality({w \in DOMAIN workers : workers[w].pc = "aborted"}) = 2
    /\ query.op \in Getters /\ query.at = handled /\ query.panic
    /\ ~running
    /\ \E w \in DOMAIN workers : workers[w].pc = "done"

----------------------------------------------------------------------------
(* Sequence numbers and failed sends *)

\* C32: a call consumes its sequence number whether or not the datagram is
\* sent: after a call that returned ConnectionFailed the counter is one
\* past the failed call's number (mod 2^16), and the next command carries
\* the counter's value, so it is numbered one past the failed call.
C32_FailedCallConsumes ==
    /\ [](call.result = "MakeSubscriptionError::ConnectionFailed" =>
            /\ wire = None
            /\ current_command_sequence_id = (Unwrap(call.sequence_id) + 1) % 65536)
    /\ [][(call'.op /= "" /\ call'.sequence_id /= None) =>
              \/ Unwrap(call'.sequence_id) = current_command_sequence_id
              \/ UNCHANGED call]_vars

\* A call numbered 65535 has failed at the socket and the counter is at 0.
C32_Witness ==
    /\ call.result = "MakeSubscriptionError::ConnectionFailed"
    /\ call.sequence_id = Some(65535)
    /\ current_command_sequence_id = 0

----------------------------------------------------------------------------
(* Lengths beyond 16 bits *)

\* C33: the length field of the envelope and end_pos are truncated to 16
\* bits: the length field of every datagram is (payload length + 10) mod
\* 2^16 and end_pos is (276 or 332 + L_ch + 1) mod 2^16, so each equals the
\* true value exactly when that value is at most 65535; and the name's
\* length raises no error: the call does not panic and fails only when the
\* socket does.
C33_TruncatedLengths ==
    /\ call.op = "make_subscription" =>
           /\ ~call.panic
           /\ call.result = "Ok" <=> call.io = "ok"
           /\ call.result = "Ok" <=> wire /= None
    /\ (wire /= None /\ call.op = "make_subscription") =>
        LET bytes   == Unwrap(wire).bytes
            payload == Payload(bytes)
            v44     == call.version = "Dante4_4_1_3"
            L_ch    == Len(call.tx_channel)
            length  == U16At(bytes, 2)
            end_pos == U16At(payload, IF v44 THEN 16 ELSE 6)
            true_end == (IF v44 THEN 276 ELSE 332) + L_ch + 1
        IN  /\ length = (Len(payload) + 10) % 65536
            /\ end_pos = true_end % 65536
            /\ length = Len(bytes) <=> Len(bytes) <= 65535
            /\ end_pos = true_end <=> true_end <= 65535

\* A 4.4.1.3 datagram of 65540 bytes has been handed to the socket: its
\* length field says 4 and its end_pos 0.
C33_Witness ==
    /\ wire /= None
    /\ call.op = "make_subscription"
    /\ call.version = "Dante4_4_1_3"
    /\ call.result = "Ok"
    /\ Len(call.tx_channel) = 65259
    /\ Len(Unwrap(wire).bytes) = 65540
    /\ U16At(Unwrap(wire).bytes, 2) = 4
    /\ U16At(Payload(Unwrap(wire).bytes), 16) = 0

----------------------------------------------------------------------------
(* start_discovery called again *)

\* A thread that has not exited.
Alive(w) == w \in DOMAIN workers /\ ~Exited(w)

\* C31: all threads share the one run flag and start_discovery spawns four
\* more threads whatever the flag is and whatever the earlier threads are
\* doing: the call leaves every earlier thread as it is and sets the flag,
\* and a thread returns only from a test that reads the flag false, so an
\* earlier thread that had not read a false flag before the call goes on
\* for as long as the flag stays true, beside the four new ones.
C31_RestartKeepsOldWorkers ==
    /\ [][Len(workers') /= Len(workers) =>
              /\ running'
              /\ Len(workers') = Len(workers) + 4
              /\ SubSeq(workers', 1, Len(workers)) = workers
              /\ \A w \in (Len(workers) + 1)..Len(workers') : workers'[w].pc = "test"]_vars
    /\ [][\A w \in DOMAIN workers :
              (workers[w].pc /= "done" /\ workers'[w].pc = "done") =>
                  /\ ~running
                  /\ workers[w].pc = "test"]_vars

\* After a second call eight threads are in their loops on a true flag, and
\* a thread of the first call and a thread of the second call have each
\* received an event and are about to change the registry.
C31_Witness ==
    /\ Len(workers) = 8
    /\ running
    /\ ~poisoned
    /\ \A w \in 1..8 : Alive(w)
    /\ \E old \in 1..4, new \in 5..8 :
           workers[old].pc = "handle" /\ workers[new].pc = "handle"

====
